---------------------------- MODULE Spec2Model ----------------------------
(***************************************************************************)
(* htmoxide: state resolution (query > cookie > default), cookie           *)
(* persistence and URL synthesis.                                          *)
(*                                                                         *)
(* Strings are TLA+ strings.  A query string is kept as the sequence of    *)
(* its '&'-separated segments, and a segment as what splitting it once on  *)
(* '=' yields: [key, eq, val], eq saying whether the segment holds a '='.  *)
(* Maps (HashMap, the cookie jar, serde_json objects) are functions whose  *)
(* DOMAIN is the set of keys present.                                      *)
(***************************************************************************)
EXTENDS Integers, Sequences, FiniteSets, TLC

VARIABLES
    jar,      \* the client's cookie jar: cookie name -> value
    pc,       \* position of the request in flight
    req,      \* the request in flight
    state,    \* the view state of the request: field -> serde_json value
    ub,       \* the UrlBuilder handed to the component
    url_q,    \* UrlBuilder development: the query string given to new()
    url_b,    \* UrlBuilder development: the builder
    url_log,  \* UrlBuilder development: the with_params pairs, in call order
    url_out,  \* UrlBuilder development: the last URL built
    url_pc,   \* UrlBuilder development: idle, building or built
    url_main, \* UrlBuilder development: the path last given to with_main_page
    url_html, \* UrlBuilder development: the Html the component returned
    url_resp, \* UrlBuilder development: the response the Html became
    set_cookies, \* the cookie changes the response in flight carries
    denylist, \* Bookmark Redirect: the denylist of the StateUrlsConfig
    mw_pc,    \* Bookmark Redirect: setup, idle, request, responded
    mw_req,   \* Bookmark Redirect: the request in flight
    mw_resp,  \* Bookmark Redirect: the response of the middleware
    mw_hops,  \* Bookmark Redirect: redirects followed in this navigation
    registry, \* startup: the component records not yet routed
    router,   \* startup: the routes of the Router, path -> method -> handler
    app_pc,   \* startup: linking, building, built, serving or panicked
    app_i,    \* startup: the records app() has been through
    inflight, \* serving: the requests being handled, each on its own task
    cc_jar,   \* concurrent persistence: the client's cookie jar
    cc_jar0,  \* concurrent persistence: the jar when the first request left
    cc_reqs,  \* concurrent persistence: the two requests of the client
    todo_list,    \* todomvc: the TodoList behind the mutex of TodoDb
    todo_removed, \* todomvc: the ids delete and clear_completed have removed
    lk_req,        \* dashboard: position and authentication of each request
    lk_mutex,      \* dashboard: the holder of each mutex of AppState, 0 if free
    request_count, \* dashboard: the value behind the request_count mutex
    lk_completed   \* dashboard: authenticated user_table requests completed

vars == <<jar, pc, req, state, ub, url_q, url_b, url_log, url_out, url_pc,
          url_main, url_html, url_resp, set_cookies, denylist, mw_pc, mw_req, mw_resp, mw_hops,
          registry, router, app_pc, app_i, inflight, cc_jar, cc_jar0, cc_reqs,
          todo_list, todo_removed, lk_req, lk_mutex, request_count,
          lk_completed>>

handlerVars == <<jar, pc, req, state, ub, set_cookies>>
urlVars == <<url_q, url_b, url_log, url_out, url_pc, url_main, url_html,
             url_resp>>
mwVars == <<denylist, mw_pc, mw_req, mw_resp, mw_hops>>
appVars == <<registry, router, app_pc, app_i, inflight>>
ccVars == <<cc_jar, cc_jar0, cc_reqs>>
todoVars == <<todo_list, todo_removed>>
lockVars == <<lk_req, lk_mutex, request_count, lk_completed>>

-----------------------------------------------------------------------------
(* Bounds *)

\* Most user_table requests the dashboard runs at once.
MaxLkRequests == 2

\* The largest value request_count reaches.
MaxRequestCount == 3

\* The largest next_id a TodoList reaches.
MaxNextId == 4

\* Most requests the serving process handles at once.
MaxInflight == 2

\* Longest query string of a request, in segments.
MaxQueryLen == 2
\* Longest query string given to UrlBuilder::new, in segments.
MaxUrlSegs == 2
\* Most with_params calls on one builder.
MaxWithParams == 2
\* Most redirects a client follows in one navigation.
MaxHops == 2
\* Most component records in the registry.
MaxComponents == 3

-----------------------------------------------------------------------------
(* Strings and serde_json values *)

UNSET_SENTINEL == "__HTMOXIDE_UNSET__"

None == [t |-> "none", n |-> 0, s |-> ""]
JNum(n) == [t |-> "int", n |-> n, s |-> ""]
JFloat(d) == [t |-> "float", n |-> 0, s |-> d]
JBool(b) == [t |-> "bool", n |-> IF b THEN 1 ELSE 0, s |-> ""]
JStr(x) == [t |-> "str", n |-> 0, s |-> x]

\* str::parse::<i64>: an optional sign and decimal digits.
I64Literals ==
    ("0" :> 0) @@ ("1" :> 1) @@ ("2" :> 2) @@ ("3" :> 3) @@ ("4" :> 4) @@
    ("5" :> 5) @@ ("6" :> 6) @@ ("7" :> 7) @@ ("05" :> 5) @@ ("+5" :> 5)

\* i64::to_string
I64ToString(n) == CHOOSE x \in {"0", "1", "2", "3", "4", "5", "6", "7"} : I64Literals[x] = n

\* str::parse::<f64> of the strings that are no i64: the finite ones, by
\* what f64::to_string prints for them, and the ones that are not finite.
F64Literals == ("1.5" :> "1.5") @@ ("1.0" :> "1") @@ (".5" :> "0.5")
F64NonFinite == {"NaN", "inf"}

\* str::parse::<bool>
BoolLiterals == ("true" :> TRUE) @@ ("false" :> FALSE)

\* serde_urlencoded's percent-decoding of a key or value (Query<T>).
FormDecode(x) ==
    CASE x = "a+b" -> "a b"
      [] x = "a%20b" -> "a b"
      [] x = "a%2Bb" -> "a+b"
      [] OTHER -> x

\* serde_urlencoded::to_string's encoding of a key or value.
FormEncode(x) ==
    CASE x = "a b" -> "a+b"
      [] x = "a+b" -> "a%2Bb"
      [] x = "a%20b" -> "a%2520b"
      [] OTHER -> x

-----------------------------------------------------------------------------
(* View state types of the dashboard example *)

StateTypes == {"CounterState", "UserTableState"}

Fields(T) ==
    CASE T = "CounterState" -> {"count"}
      [] T = "UserTableState" -> {"sort", "filter"}

FieldNames == UNION {Fields(T) : T \in StateTypes}

FieldType(f) == IF f = "count" THEN "i32" ELSE "String"

\* serde_json::to_value(&T::default())
Default(T) ==
    [f \in Fields(T) |-> IF FieldType(f) = "i32" THEN JNum(0) ELSE JStr("")]

\* Whether serde_json::from_value accepts value v for field f.
FieldAccepts(f, v) ==
    IF FieldType(f) = "i32" THEN v.t = "int" ELSE v.t = "str"

\* serde_json::from_value::<T>(obj) is Ok
FromValueOk(T, obj) == \A f \in Fields(T) : FieldAccepts(f, obj[f])


-----------------------------------------------------------------------------
(* Query strings *)

Seg(k, e, v) == [key |-> k, eq |-> e, val |-> v]

\* The empty segment, as in "a=1&&b=2".
IsEmptySeg(sg) == sg.key = "" /\ ~sg.eq

\* form_urlencoded::parse: the decoded (key, value) pairs of a query string,
\* in order; empty segments are skipped, a segment without '=' has value "".
QueryPairs(q) ==
    LET kept == SelectSeq(q, LAMBDA sg : ~IsEmptySeg(sg))
    IN  [i \in 1..Len(kept) |->
            [k |-> FormDecode(kept[i].key), v |-> FormDecode(kept[i].val)]]

\* Query<HashMap<String, String>>: a later pair replaces an earlier one.
QueryMap(q) ==
    LET ps == QueryPairs(q)
        last(k) == CHOOSE i \in 1..Len(ps) :
                      ps[i].k = k /\ \A j \in (i+1)..Len(ps) : ps[j].k # k
    IN  [k \in {ps[i].k : i \in 1..Len(ps)} |-> ps[last(k)].v]

-----------------------------------------------------------------------------
(* State resolution spliced into a component handler *)

\* serde's reading of one query value into field f (None: an error).
FieldFromStr(f, v) ==
    IF FieldType(f) = "i32"
    THEN IF v \in DOMAIN I64Literals THEN JNum(I64Literals[v]) ELSE None
    ELSE JStr(v)

\* The rejection of Query<T>: no value.
QueryRejection == [f \in {} |-> None]

\* Query::<T>::from_request_parts: a field given twice or a value that does
\* not parse rejects the whole query.
QueryExtract(T, q) ==
    LET ps == QueryPairs(q)
        occ(f) == {i \in 1..Len(ps) : ps[i].k = f}
        bad(f) == \/ Cardinality(occ(f)) > 1
                  \/ \E i \in occ(f) : FieldFromStr(f, ps[i].v) = None
    IN  IF \E f \in Fields(T) : bad(f)
        THEN [ok |-> FALSE, value |-> QueryRejection]
        ELSE [ok |-> TRUE,
              value |-> [f \in Fields(T) |->
                            IF occ(f) = {} THEN Default(T)[f]
                            ELSE FieldFromStr(f, ps[CHOOSE i \in occ(f) : TRUE].v)]]

\* StateExtractor handing the rejection of Query<T> on.
StateExtractor_rejecting(T, q) == QueryExtract(T, q).value

\* StateExtractor::from_request_parts: the value of Query<T>, or T::default()
\* when the query is rejected.
StateExtractor(T, q) ==
    IF QueryExtract(T, q).ok THEN QueryExtract(T, q).value ELSE Default(T)

\* The handler's reading of a cookie value.
ParseCookieValue(value) ==
    IF value \in DOMAIN I64Literals THEN JNum(I64Literals[value])
    ELSE IF value \in DOMAIN F64Literals THEN JFloat(F64Literals[value])
    ELSE IF value \in F64NonFinite THEN None
    ELSE IF value \in DOMAIN BoolLiterals THEN JBool(BoolLiterals[value])
    ELSE IF value # "" THEN JStr(value)
    ELSE None

\* Whether the handler lets the cookie of a field replace its value.
CookieMayOverride(current_value, default_value) == current_value = default_value

\* The merged object the handler builds from the extracted state.
HydratedObject(T, st, cookies) ==
    [f \in Fields(T) |->
        IF /\ CookieMayOverride(st[f], Default(T)[f])
           /\ f \in DOMAIN cookies
           /\ ParseCookieValue(cookies[f]) # None
        THEN ParseCookieValue(cookies[f])
        ELSE st[f]]

\* Cookie hydration: the merged object when it deserializes, else st.
CookieHydrate(T, st, cookies) ==
    IF FromValueOk(T, HydratedObject(T, st, cookies))
    THEN HydratedObject(T, st, cookies)
    ELSE st

\* Resolution as the handler performs it.
HandlerResolve(T, q, cookies) == CookieHydrate(T, StateExtractor(T, q), cookies)

\* CookieString with the string case written as serde_json prints a value
\* (Value::to_string: quoted) instead of as_str.
CookieString_quoted(v) ==
    CASE v.t = "str" -> "\"" \o v.s \o "\""
      [] v.t = "int" -> I64ToString(v.n)
      [] v.t = "float" -> v.s
      [] v.t = "bool" -> IF v.n = 1 THEN "true" ELSE "false"

\* The string the handler stores in the cookie of a field.
CookieString(v) ==
    CASE v.t = "str" -> v.s
      [] v.t = "int" -> I64ToString(v.n)
      [] v.t = "float" -> v.s
      [] v.t = "bool" -> IF v.n = 1 THEN "true" ELSE "false"

\* A cookie without a Path attribute.
NoPath == "None"

\* cookies.remove(name)
CookieRemove(cookies, name) ==
    [c \in DOMAIN cookies \ {name} |-> cookies[c]]

\* cookies.add(Cookie::new(name, val))
CookieAdd(cookies, name, val) ==
    [c \in DOMAIN cookies \cup {name} |-> IF c = name THEN val ELSE cookies[c]]

\* The cookie write of one field that leaves the cookie of an empty value.
SaveField_keeping(cookies, key, value) ==
    IF CookieString(value) = ""
    THEN cookies
    ELSE CookieAdd(cookies, key, CookieString(value))

\* The cookie write of one field: an empty value removes the cookie.
SaveField(cookies, key, value) ==
    IF CookieString(value) = ""
    THEN CookieRemove(cookies, key)
    ELSE CookieAdd(cookies, key, CookieString(value))

RECURSIVE SaveFields(_, _, _)
SaveFields(keys, st, cookies) ==
    IF keys = {} THEN cookies
    ELSE LET key == CHOOSE k \in keys : TRUE
         IN  SaveFields(keys \ {key}, st, SaveField(cookies, key, st[key]))

\* Save current state to cookies: one cookie per field of the state.
SaveCookies(T, st, cookies) == SaveFields(Fields(T), st, cookies)

\* Cookie::new(key, val) with set_path("/"), given to cookies.add
AddedCookie(name, val) ==
    [op |-> "add", name |-> name, value |-> val, path |-> "/"]

\* Cookie::from(key), given to cookies.remove
RemovedCookie(name) ==
    [op |-> "remove", name |-> name, value |-> "", path |-> NoPath]

\* The cookie call the save step makes for one field.
CookieCall(key, value) ==
    IF CookieString(value) = ""
    THEN RemovedCookie(key)
    ELSE AddedCookie(key, CookieString(value))

\* The save step also removing every cookie that is not of a field of T.
CookieCalls_sweeping(T, st) ==
    {IF key \in Fields(T)
     THEN (IF CookieString(st[key]) = ""
           THEN RemovedCookie(key)
           ELSE AddedCookie(key, CookieString(st[key])))
     ELSE RemovedCookie(key) : key \in FieldNames}

\* The cookie calls of the save step.
CookieCalls(T, st) == {CookieCall(key, st[key]) : key \in Fields(T)}

-----------------------------------------------------------------------------
(* StateLoader *)

\* StateLoader::parse_value
parse_value(value) ==
    IF value \in DOMAIN I64Literals THEN JNum(I64Literals[value])
    ELSE IF value \in DOMAIN F64Literals THEN JFloat(F64Literals[value])
    ELSE IF value \in F64NonFinite THEN None
    ELSE IF value \in DOMAIN BoolLiterals THEN JBool(BoolLiterals[value])
    ELSE JStr(value)

\* LoadField taking the sentinel for the empty string in a cookie too.
LoadField_cookie_sentinel(default_value, key, cookies, query_params) ==
    LET from_cookie ==
            IF key \in DOMAIN cookies /\ cookies[key] = UNSET_SENTINEL
            THEN JStr("")
            ELSE IF key \in DOMAIN cookies /\ parse_value(cookies[key]) # None
            THEN parse_value(cookies[key])
            ELSE default_value
    IN  IF key \in DOMAIN query_params
        THEN IF query_params[key] = UNSET_SENTINEL THEN JStr("")
             ELSE IF parse_value(query_params[key]) # None
                  THEN parse_value(query_params[key])
                  ELSE from_cookie
        ELSE from_cookie

\* The value of one field after the cookie and the query step.
LoadField(default_value, key, cookies, query_params) ==
    LET from_cookie ==
            IF key \in DOMAIN cookies /\ parse_value(cookies[key]) # None
            THEN parse_value(cookies[key])
            ELSE default_value
    IN  IF key \in DOMAIN query_params
        THEN IF query_params[key] = UNSET_SENTINEL THEN JStr("")
             ELSE IF parse_value(query_params[key]) # None
                  THEN parse_value(query_params[key])
                  ELSE from_cookie
        ELSE from_cookie

\* StateLoader::load::<T>
load(T, cookies, query_params) ==
    LET obj == [f \in Fields(T) |->
                    LoadField(Default(T)[f], f, cookies, query_params)]
    IN  IF FromValueOk(T, obj) THEN obj ELSE Default(T)

-----------------------------------------------------------------------------
(* UrlBuilder *)

\* Option<String>::None of main_page_path (a path starts with '/').
NonePath == "None"

EmptyMap == [k \in {} |-> ""]

\* HashMap::insert
Insert(m, k, v) == [x \in DOMAIN m \cup {k} |-> IF x = k THEN v ELSE m[x]]

\* Iterator::collect into a HashMap: the pairs inserted in order.
RECURSIVE CollectMap(_, _)
CollectMap(m, pairs) ==
    IF pairs = <<>> THEN m
    ELSE CollectMap(Insert(m, Head(pairs).k, Head(pairs).v), Tail(pairs))

\* parse_query_string: no decoding; empty segments and segments with an
\* empty key are dropped, a segment without '=' has value "".
parse_query_string(query) ==
    IF query = <<>> THEN EmptyMap
    ELSE LET kept == SelectSeq(query,
                         LAMBDA sg : ~IsEmptySeg(sg) /\ sg.key # "")
         IN  CollectMap(EmptyMap,
                 [i \in 1..Len(kept) |->
                     [k |-> kept[i].key,
                      v |-> IF kept[i].eq THEN kept[i].val ELSE ""]])

\* UrlBuilder::new
UrlBuilderNew(path, query_string) ==
    [path |-> path,
     all_params |-> parse_query_string(query_string),
     main_page_path |-> NonePath]

\* UrlBuilder::with_main_page
with_main_page(b, main_page_path) ==
    [b EXCEPT !.main_page_path = main_page_path]

\* with_params building the map from the given pairs alone.
with_params_replacing(b, params) ==
    [b EXCEPT !.all_params = CollectMap(EmptyMap, params)]

\* with_params keeping the value a key already has (entry().or_insert()).
with_params_keeping(b, params) ==
    [b EXCEPT !.all_params =
        LET rev == [i \in 1..Len(params) |-> params[Len(params) + 1 - i]]
            first == CollectMap(EmptyMap, rev)
        IN  [k \in DOMAIN b.all_params \cup DOMAIN first |->
                IF k \in DOMAIN b.all_params THEN b.all_params[k] ELSE first[k]]]

\* UrlBuilder::with_params
with_params(b, params) ==
    [b EXCEPT !.all_params = CollectMap(b.all_params, params)]

\* The filter dropping empty keys only.
filtered_params_keys_only(all_params) ==
    [k \in {x \in DOMAIN all_params : x # ""} |-> all_params[k]]

\* The filter of build, build_main_url and build_page_url.
filtered_params(all_params) ==
    [k \in {x \in DOMAIN all_params : x # "" /\ all_params[x] # ""} |->
        all_params[k]]

\* serde_urlencoded::to_string(&HashMap): the entries, each once and encoded,
\* in the map's iteration order, which is any order.
Serializations(m) ==
    LET n == Cardinality(DOMAIN m)
        orders == {o \in [1..n -> DOMAIN m] :
                      \A i, j \in 1..n : i # j => o[i] # o[j]}
    IN  {[i \in 1..n |-> Seg(FormEncode(o[i]), TRUE, FormEncode(m[o[i]]))] :
            o \in orders}

\* A URL: has_query says whether it holds a '?'.
Url(path, has_query, query) ==
    [path |-> path, has_query |-> has_query, query |-> query]

\* format!("{}?{}", path, query_string), or the bare path.
UrlsOf(path, all_params) ==
    IF DOMAIN filtered_params(all_params) = {}
    THEN {Url(path, FALSE, <<>>)}
    ELSE {Url(path, TRUE, s) : s \in Serializations(filtered_params(all_params))}

\* UrlBuilder::build: the URLs it may return.
build(b) == UrlsOf(b.path, b.all_params)

\* build_main_url writing for the base path when no main page was recorded.
build_main_url_base(b) ==
    UrlsOf(IF b.main_page_path = NonePath THEN b.path ELSE b.main_page_path,
           b.all_params)

\* UrlBuilder::build_main_url
build_main_url(b) ==
    UrlsOf(IF b.main_page_path = NonePath THEN "/" ELSE b.main_page_path,
           b.all_params)

\* UrlBuilder::build_page_url
build_page_url(b, page_path) == UrlsOf(page_path, b.all_params)

\* UrlBuilder::all_params
all_params(b) == b.all_params

-----------------------------------------------------------------------------
(* Requests a client sends *)

\* Values a client puts in a query or a cookie, per field: the default, other
\* well-typed values, values of another type, the empty string, the sentinel.
InputValues(f) ==
    CASE f = "count" -> {"", "0", "5", "1.5", UNSET_SENTINEL}
      [] f = "sort" -> {"", "name", "5", UNSET_SENTINEL}
      [] f = "filter" -> {"", "abc", "true"}

\* Query strings of at most MaxQueryLen segments over the given fields; a
\* segment is key=value or, malformed, the key count alone.
Queries(fields) ==
    LET segs == UNION {{Seg(f, TRUE, v) : v \in InputValues(f)} : f \in fields}
                \cup {Seg(f, FALSE, "") : f \in fields \cap {"count"}}
    IN  UNION {[1..n -> segs] : n \in 0..MaxQueryLen}

\* #[component]: the state type and route of each registered component.
Components == {"counter", "user_table"}

StateTypeOf(component) ==
    CASE component = "counter" -> "CounterState"
      [] component = "user_table" -> "UserTableState"

\* The macro's default route: "/" followed by the function name.
RoutePath(component) ==
    CASE component = "counter" -> "/counter"
      [] component = "user_table" -> "/user_table"

\* Pages that resolve component state with StateLoader.
Pages == {"/simple", "/users"}

PageStateTypes(page) ==
    CASE page = "/simple" -> {"CounterState"}
      [] page = "/users" -> {"UserTableState"}

\* HX-Current-URL of a partial update, or no such header.
NoHeader == "None"
CurrentUrls == {NoHeader, "http://localhost:3000/simple?count=3"}

\* url.split('?').next()
BeforeQuestionMark(u) ==
    CASE u = "http://localhost:3000/simple?count=3" -> "http://localhost:3000/simple"
      [] OTHER -> u

NoRequest ==
    [kind |-> "none", target |-> "", query |-> <<>>, cookies |-> EmptyMap,
     hx_current_url |-> NoHeader]

NoBuilder == [path |-> "", all_params |-> EmptyMap, main_page_path |-> NonePath]

\* The UrlBuilder the generated handler hands to the component: seeded with
\* the raw query string, and carrying the logical page when the request has
\* an HX-Current-URL header.
url_builder(route_path, query_string, hx_current_url) ==
    IF hx_current_url # NoHeader
    THEN with_main_page(UrlBuilderNew(route_path, query_string),
                        BeforeQuestionMark(hx_current_url))
    ELSE UrlBuilderNew(route_path, query_string)

-----------------------------------------------------------------------------
(* The component's response *)

\* Option<String>: NoUrl is None, the empty sequence; Some(u) is <<u>>.
NoUrl == <<>>

\* Html::new(markup): the markup is left out, push_url is None.
HtmlNew == [push_url |-> NoUrl]

\* Html::with_push_url
with_push_url(html, u) == [html EXCEPT !.push_url = <<u>>]

\* No response yet.
NoHttpResponse == [status |-> 0, headers |-> EmptyMap]

\* HeaderValue::from_str(&push_url).is_ok(): a string with a control
\* character is no header value.
HeaderValueOk(u) == u.path \notin {"/sim\nple"}

\* into_response never setting a header.
into_response_bare(html) == [status |-> 200, headers |-> EmptyMap]

\* <Html as IntoResponse>::into_response: status 200, and the HX-Push-Url
\* header when a push URL is set and is a valid header value.
into_response(html) ==
    [status |-> 200,
     headers |-> IF html.push_url # NoUrl /\ HeaderValueOk(html.push_url[1])
                 THEN [h \in {"HX-Push-Url"} |-> html.push_url[1]]
                 ELSE EmptyMap]

-----------------------------------------------------------------------------
(* Bookmark Redirect: the state URLs middleware *)

\* StateUrlsConfig::new
StateUrlsConfigNew == [denylist |-> {}]

\* StateUrlsConfig::with_denylist
with_denylist(items) == [denylist |-> items]

\* StateUrlsConfig::deny
deny(config, items) == [denylist |-> config.denylist \cup items]

\* StateUrlsConfig::default
StateUrlsConfigDefault ==
    with_denylist({"token", "session", "session_id", "sessionid", "csrf",
                   "csrf_token", "auth", "auth_token", "jwt", "bearer", "id"})

\* No navigation in flight, and no response of the middleware yet.
NoNavigation ==
    [path |-> "", has_query |-> FALSE, query |-> <<>>, hx_request |-> FALSE,
     hx_current_url |-> NoHeader, cookies |-> EmptyMap]

NoResponse ==
    [kind |-> "none", url |-> Url("", FALSE, <<>>), next_run |-> FALSE,
     passed |-> NoNavigation]

\* request.headers().get("HX-Request").is_some()
IsHtmxRequest(request) == request.hx_request

\* The query check taking "/simple?" for a request without a query.
HasQuery_nonempty(request) == request.query # <<>>

\* uri.query().is_some(): true of "/simple?" too
HasQuery(request) == request.has_query

\* Denylisting that skips no cookie.
Denylisted_never(config, name) == FALSE

\* config.denylist.contains(name)
Denylisted(config, name) == name \in config.denylist

\* The query_params collected from the cookies.
CollectedParams(config, cookies) ==
    [name \in {n \in DOMAIN cookies :
                  ~Denylisted(config, n) /\ cookies[n] # ""} |-> cookies[name]]

\* A redirect to the path alone.
RedirectTo_bare(path, query_params) ==
    {[kind |-> "redirect", url |-> Url(path, FALSE, <<>>), next_run |-> FALSE,
      passed |-> NoNavigation]}

\* Redirect::to(format!("{}?{}", path, query_string)): the responses it may
\* be, one for each order of the HashMap.
RedirectTo(path, query_params) ==
    {[kind |-> "redirect", url |-> Url(path, TRUE, s), next_run |-> FALSE,
      passed |-> NoNavigation] : s \in Serializations(query_params)}

\* next.run(request)
NextRun(request) ==
    [kind |-> "next", url |-> Url("", FALSE, <<>>), next_run |-> TRUE,
     passed |-> request]

\* The middleware running the next handler before it redirects.
state_urls_middleware_impl_late(config, cookies, request) ==
    IF IsHtmxRequest(request) THEN {NextRun(request)}
    ELSE IF HasQuery(request) THEN {NextRun(request)}
    ELSE IF DOMAIN CollectedParams(config, cookies) # {}
    THEN {[r EXCEPT !.next_run = TRUE, !.passed = request] :
             r \in RedirectTo(request.path, CollectedParams(config, cookies))}
    ELSE {NextRun(request)}

\* state_urls_middleware_impl: the responses it may give.
state_urls_middleware_impl(config, cookies, request) ==
    IF IsHtmxRequest(request) THEN {NextRun(request)}
    ELSE IF HasQuery(request) THEN {NextRun(request)}
    ELSE IF DOMAIN CollectedParams(config, cookies) # {}
    THEN RedirectTo(request.path, CollectedParams(config, cookies))
    ELSE {NextRun(request)}

\* The handler the router dispatches the request to: a page resolves its
\* state with StateLoader::load, a component handler resolves, saves and
\* builds the component's UrlBuilder.
Downstream(request, cookies) ==
    IF request.path \in Pages
    THEN [state |->
             [f \in UNION {Fields(T) : T \in PageStateTypes(request.path)} |->
                 load(CHOOSE T \in PageStateTypes(request.path) : f \in Fields(T),
                      request.cookies, QueryMap(request.query))[f]],
          jar |-> cookies,
          set_cookies |-> {},
          ub |-> NoBuilder]
    ELSE LET component == CHOOSE c \in Components : RoutePath(c) = request.path
             T == StateTypeOf(component)
             st == HandlerResolve(T, request.query, request.cookies)
         IN  [state |-> st,
              jar |-> SaveCookies(T, st, cookies),
              set_cookies |-> CookieCalls(T, st),
              ub |-> url_builder(request.path, request.query,
                                 request.hx_current_url)]

-----------------------------------------------------------------------------
(* Startup: the component registry and app() *)

\* ComponentInfo::new(name, path, handler, method)
ComponentInfo(name, path, method) ==
    [name |-> name, path |-> path, method |-> method]

\* Router::new()
EmptyRouter == [p \in {} |-> {}]

\* The method service app() builds for a record: the record's handler
\* behind the filter of its method, GET unless the method is POST, PUT,
\* DELETE or PATCH.
MethodService(method, handler) ==
    [method |-> IF method \in {"POST", "PUT", "DELETE", "PATCH"}
                THEN method ELSE "GET",
     handler |-> handler]

\* The panic of Router::route: "Overlapping method route".
Panicked == [p \in {"panic"} |-> [m \in {} |-> ""]]

\* Router::route letting a later handler replace the one of the same path
\* and method.
RouterRoute_shadowing(r, path, method_service) ==
    LET old == IF path \in DOMAIN r THEN r[path] ELSE [m \in {} |-> ""]
    IN  [p \in DOMAIN r \cup {path} |->
            IF p = path
            THEN [m \in DOMAIN old \cup {method_service.method} |->
                     IF m = method_service.method
                     THEN method_service.handler ELSE old[m]]
            ELSE r[p]]

\* Router::route: the handlers of one path are merged by method; a method
\* that already has a handler for the path panics.
RouterRoute(r, path, method_service) ==
    LET old == IF path \in DOMAIN r THEN r[path] ELSE [m \in {} |-> ""]
    IN  IF method_service.method \in DOMAIN old
        THEN Panicked
        ELSE [p \in DOMAIN r \cup {path} |->
                 IF p = path
                 THEN [m \in DOMAIN old \cup {method_service.method} |->
                          IF m = method_service.method
                          THEN method_service.handler ELSE old[m]]
                 ELSE r[p]]

\* No handler answered: the router's own 404 or 405.
NoHandler == ""

\* The router's answer to a request: the handler routed for the request's
\* path and method, if there is one.
Dispatch(r, method, path) ==
    IF path \in DOMAIN r /\ method \in DOMAIN r[path]
    THEN r[path][method]
    ELSE NoHandler

-----------------------------------------------------------------------------
(* Two requests of one client in flight at once *)

CcSlots == {1, 2}

\* A slot without a request.
CcIdle ==
    [stage |-> "idle", component |-> "", query |-> <<>>, cookies |-> EmptyMap,
     set_cookies |-> {}]

\* The client applies the Set-Cookie headers of a response to its jar.
RECURSIVE ApplySetCookies(_, _)
ApplySetCookies(cookies, calls) ==
    IF calls = {} THEN cookies
    ELSE LET c == CHOOSE x \in calls : TRUE
         IN  ApplySetCookies(IF c.op = "add"
                             THEN CookieAdd(cookies, c.name, c.value)
                             ELSE CookieRemove(cookies, c.name),
                             calls \ {c})

-----------------------------------------------------------------------------
(* todomvc: TodoList *)

\* Todo { id, title, completed: false, editing: None }
Todo(id, title) == [id |-> id, title |-> title, completed |-> FALSE]

\* TodoList::default(): the derived Default, next_id 0.
TodoListDefault == [todos |-> <<>>, next_id |-> 0]

\* TodoList::new()
TodoListNew == [todos |-> <<>>, next_id |-> 1]

\* add handing out next_id without advancing it.
add_reusing(list, title) ==
    [todos |-> Append(list.todos, Todo(list.next_id, title)),
     next_id |-> list.next_id]

\* TodoList::add
add(list, title) ==
    [todos |-> Append(list.todos, Todo(list.next_id, title)),
     next_id |-> list.next_id + 1]

\* TodoList::toggle
toggle(list, id) ==
    [list EXCEPT !.todos =
        [i \in 1..Len(list.todos) |->
            IF list.todos[i].id = id
               /\ \A j \in 1..(i - 1) : list.todos[j].id # id
            THEN [list.todos[i] EXCEPT !.completed = ~list.todos[i].completed]
            ELSE list.todos[i]]]

\* TodoList::toggle_all
toggle_all(list, completed) ==
    [list EXCEPT !.todos =
        [i \in 1..Len(list.todos) |->
            [list.todos[i] EXCEPT !.completed = completed]]]

\* TodoList::delete
delete(list, id) ==
    [list EXCEPT !.todos = SelectSeq(list.todos, LAMBDA t : t.id # id)]

\* TodoList::update_title
update_title(list, id, title) ==
    [list EXCEPT !.todos =
        [i \in 1..Len(list.todos) |->
            IF list.todos[i].id = id
               /\ \A j \in 1..(i - 1) : list.todos[j].id # id
            THEN [list.todos[i] EXCEPT !.title = title]
            ELSE list.todos[i]]]

\* TodoList::clear_completed
clear_completed(list) ==
    [list EXCEPT !.todos = SelectSeq(list.todos, LAMBDA t : ~t.completed)]

\* The ids of the todos in the list.
TodoIds(list) == {list.todos[i].id : i \in 1..Len(list.todos)}

\* title.trim()
Trim(title) == IF title = " " THEN "" ELSE title

-----------------------------------------------------------------------------
(* dashboard: the shared AppState *)

\* The user_table requests the process runs at once, each on its own task.
LkRequests == 1..MaxLkRequests

\* A mutex nobody holds.
Free == 0

\* AppState::new(): both mutexes free, request_count 0.
AppStateNew ==
    [mutex |-> [m \in {"users", "request_count"} |-> Free],
     request_count |-> 0]

-----------------------------------------------------------------------------
(* The request cycle *)

Init ==
    /\ jar = EmptyMap
    /\ pc = "idle"
    /\ req = NoRequest
    /\ state = EmptyMap
    /\ ub = NoBuilder
    /\ set_cookies = {}
    /\ url_q = <<>>
    /\ url_b = NoBuilder
    /\ url_log = <<>>
    /\ url_out = Url("", FALSE, <<>>)
    /\ url_pc = "idle"
    /\ url_main = NonePath
    /\ url_html = HtmlNew
    /\ url_resp = NoHttpResponse
    /\ denylist = {}
    /\ mw_pc = "setup"
    /\ mw_req = NoNavigation
    /\ mw_resp = NoResponse
    /\ mw_hops = 0
    /\ registry = <<>>
    /\ router = EmptyRouter
    /\ app_pc = "linking"
    /\ app_i = 0
    /\ inflight = {}
    /\ cc_jar = EmptyMap
    /\ cc_jar0 = EmptyMap
    /\ cc_reqs = [i \in CcSlots |-> CcIdle]
    /\ todo_list = TodoListDefault
    /\ todo_removed = {}
    /\ lk_req = [r \in LkRequests |-> [pc |-> "idle", authenticated |-> FALSE]]
    /\ lk_mutex = AppStateNew.mutex
    /\ request_count = AppStateNew.request_count
    /\ lk_completed = 0

\* The client's jar changes outside the server: a script, the user, another
\* application of the same site.
ClientSetCookie(c, v) ==
    /\ pc = "idle"
    /\ jar' = CookieAdd(jar, c, v)
    /\ UNCHANGED <<set_cookies, pc, req, state, ub, urlVars, mwVars, appVars,
                   ccVars, todoVars, lockVars>>

ClientClearCookie(c) ==
    /\ pc = "idle"
    /\ c \in DOMAIN jar
    /\ jar' = CookieRemove(jar, c)
    /\ UNCHANGED <<set_cookies, pc, req, state, ub, urlVars, mwVars, appVars,
                   ccVars, todoVars, lockVars>>

\* A request to a component route, carrying the jar's cookies.
ComponentRequest(component, q, hx) ==
    /\ pc = "idle"
    /\ req' = [kind |-> "component", target |-> component, query |-> q,
               cookies |-> jar, hx_current_url |-> hx]
    /\ pc' = "extract"
    /\ UNCHANGED <<set_cookies, jar, state, ub, urlVars, mwVars, appVars,
                   ccVars, todoVars, lockVars>>

\* POSITION 0: extract the view state from the query.
ExtractState ==
    /\ pc = "extract"
    /\ state' = StateExtractor(StateTypeOf(req.target), req.query)
    /\ pc' = "hydrate"
    /\ UNCHANGED <<set_cookies, jar, req, ub, urlVars, mwVars, appVars,
                   ccVars, todoVars, lockVars>>

\* Merge cookie values into the state.
HydrateFromCookies ==
    /\ pc = "hydrate"
    /\ state' = CookieHydrate(StateTypeOf(req.target), state, req.cookies)
    /\ pc' = "save"
    /\ UNCHANGED <<set_cookies, jar, req, ub, urlVars, mwVars, appVars,
                   ccVars, todoVars, lockVars>>

\* Save the state to cookies; the client applies the Set-Cookie headers.
SaveStateToCookies ==
    /\ pc = "save"
    /\ jar' = SaveCookies(StateTypeOf(req.target), state, jar)
    /\ set_cookies' = CookieCalls(StateTypeOf(req.target), state)
    /\ pc' = "url"
    /\ UNCHANGED <<req, state, ub, urlVars, mwVars, appVars, ccVars,
                   todoVars, lockVars>>

\* POSITION 1: the UrlBuilder, seeded with the raw query string.
MakeUrlBuilder ==
    /\ pc = "url"
    /\ ub' = url_builder(RoutePath(req.target), req.query, req.hx_current_url)
    /\ pc' = "done"
    /\ UNCHANGED <<set_cookies, jar, req, state, urlVars, mwVars, appVars,
                   ccVars, todoVars, lockVars>>

\* A full navigation to a page.
PageRequest(page, q) ==
    /\ pc = "idle"
    /\ req' = [kind |-> "page", target |-> page, query |-> q,
               cookies |-> jar, hx_current_url |-> NoHeader]
    /\ pc' = "load"
    /\ UNCHANGED <<set_cookies, jar, state, ub, urlVars, mwVars, appVars,
                   ccVars, todoVars, lockVars>>

\* The page resolves the state of its components with StateLoader::load.
LoadPageState ==
    /\ pc = "load"
    /\ state' = [f \in UNION {Fields(T) : T \in PageStateTypes(req.target)} |->
                    load(CHOOSE T \in PageStateTypes(req.target) : f \in Fields(T),
                         req.cookies, QueryMap(req.query))[f]]
    /\ pc' = "done"
    /\ UNCHANGED <<set_cookies, jar, req, ub, urlVars, mwVars, appVars,
                   ccVars, todoVars, lockVars>>

\* The response reaches the client.
Respond ==
    /\ pc = "done"
    /\ pc' = "idle"
    /\ req' = NoRequest
    /\ state' = EmptyMap
    /\ ub' = NoBuilder
    /\ set_cookies' = {}
    /\ UNCHANGED <<jar, urlVars, mwVars, appVars, ccVars, todoVars, lockVars>>

Next ==
    \/ \E c \in FieldNames : \E v \in InputValues(c) : ClientSetCookie(c, v)
    \/ \E c \in FieldNames : ClientClearCookie(c)
    \/ \E component \in Components :
         \E q \in Queries(Fields(StateTypeOf(component))) :
           \E hx \in CurrentUrls : ComponentRequest(component, q, hx)
    \/ ExtractState
    \/ HydrateFromCookies
    \/ SaveStateToCookies
    \/ MakeUrlBuilder
    \/ \E page \in Pages :
         \E q \in Queries(UNION {Fields(T) : T \in PageStateTypes(page)}) :
           PageRequest(page, q)
    \/ LoadPageState
    \/ Respond

Spec == Init /\ [][Next]_vars

-----------------------------------------------------------------------------
(* UrlBuilder development: new, then with_main_page and with_params in any
   order, then one of the build functions *)

\* Segments of the query strings given to new(): plain pairs, a repeated key,
\* a percent-encoded value, an empty value, a segment without '=', an empty
\* key, an empty segment.
UrlSegInputs ==
    {Seg("a", TRUE, "1"), Seg("a", TRUE, "a%20b"), Seg("b", TRUE, "2"),
     Seg("count", TRUE, "0"), Seg("b", TRUE, ""), Seg("a", FALSE, ""),
     Seg("", TRUE, "1"), Seg("", FALSE, "")}

UrlQueries == UNION {[1..n -> UrlSegInputs] : n \in 0..MaxUrlSegs}

\* Pairs given to with_params: a new value, an empty value, an empty key, a
\* value that needs encoding.
UrlPairInputs ==
    {[k |-> "b", v |-> "3"], [k |-> "count", v |-> ""],
     [k |-> "", v |-> "3"], [k |-> "a", v |-> "a b"]}

\* The base path given to new() and the page paths given to with_main_page.
UrlPaths == {"/x"}
UrlMainPages == {"/simple", "/users"}

UrlNew(path, q) ==
    /\ url_pc = "idle"
    /\ url_q' = q
    /\ url_b' = UrlBuilderNew(path, q)
    /\ url_log' = <<>>
    /\ url_main' = NonePath
    /\ url_pc' = "building"
    /\ UNCHANGED <<url_out, url_html, url_resp, handlerVars, mwVars, appVars,
                   ccVars, todoVars, lockVars>>

UrlWithMainPage(page) ==
    /\ url_pc = "building"
    /\ url_b' = with_main_page(url_b, page)
    /\ url_main' = page
    /\ UNCHANGED <<url_q, url_log, url_out, url_pc, url_html, url_resp,
                   handlerVars, mwVars, appVars, ccVars, todoVars, lockVars>>

UrlWithParams(params) ==
    /\ url_pc = "building"
    /\ Len(url_log) + Len(params) <= MaxWithParams
    /\ url_b' = with_params(url_b, params)
    /\ url_log' = url_log \o params
    /\ UNCHANGED <<url_q, url_out, url_pc, url_main, url_html, url_resp,
                   handlerVars, mwVars, appVars, ccVars, todoVars, lockVars>>

UrlBuild ==
    /\ url_pc = "building"
    /\ url_out' \in build(url_b)
    /\ url_pc' = "build"
    /\ UNCHANGED <<url_q, url_b, url_log, url_main, url_html, url_resp,
                   handlerVars, mwVars, appVars, ccVars, todoVars, lockVars>>

UrlBuildMainUrl ==
    /\ url_pc = "building"
    /\ url_out' \in build_main_url(url_b)
    /\ url_pc' = "build_main_url"
    /\ UNCHANGED <<url_q, url_b, url_log, url_main, url_html, url_resp,
                   handlerVars, mwVars, appVars, ccVars, todoVars, lockVars>>

UrlBuildPageUrl(page_path) ==
    /\ url_pc = "building"
    /\ url_out' \in build_page_url(url_b, page_path)
    /\ url_pc' = "build_page_url"
    /\ UNCHANGED <<url_q, url_b, url_log, url_main, url_html, url_resp,
                   handlerVars, mwVars, appVars, ccVars, todoVars, lockVars>>

\* The component returns its Html, with the main URL pushed or without.
UrlHtml(pushed) ==
    /\ url_pc = "build_main_url"
    /\ url_html' = IF pushed THEN with_push_url(HtmlNew, url_out) ELSE HtmlNew
    /\ url_pc' = "html"
    /\ UNCHANGED <<url_q, url_b, url_log, url_out, url_main, url_resp,
                   handlerVars, mwVars, appVars, ccVars, todoVars, lockVars>>

\* The generated handler turns the component's Html into the response.
UrlIntoResponse ==
    /\ url_pc = "html"
    /\ url_resp' = into_response(url_html)
    /\ url_pc' = "into_response"
    /\ UNCHANGED <<url_q, url_b, url_log, url_out, url_main, url_html,
                   handlerVars, mwVars, appVars, ccVars, todoVars, lockVars>>

\* The built URL is used and the builder dropped.
UrlDrop ==
    /\ url_pc \in {"build", "build_main_url", "build_page_url", "into_response"}
    /\ url_q' = <<>>
    /\ url_b' = NoBuilder
    /\ url_log' = <<>>
    /\ url_out' = Url("", FALSE, <<>>)
    /\ url_main' = NonePath
    /\ url_html' = HtmlNew
    /\ url_resp' = NoHttpResponse
    /\ url_pc' = "idle"
    /\ UNCHANGED <<handlerVars, mwVars, appVars, ccVars, todoVars, lockVars>>

UrlNext ==
    \/ \E path \in UrlPaths : \E q \in UrlQueries : UrlNew(path, q)
    \/ \E page \in UrlMainPages : UrlWithMainPage(page)
    \/ \E n \in 1..MaxWithParams :
         \E params \in [1..n -> UrlPairInputs] : UrlWithParams(params)
    \/ UrlBuild
    \/ UrlBuildMainUrl
    \/ UrlBuildPageUrl("/users")
    \/ \E pushed \in BOOLEAN : UrlHtml(pushed)
    \/ UrlIntoResponse
    \/ UrlDrop

UrlSpec == Init /\ [][UrlNext]_vars

-----------------------------------------------------------------------------
(* Bookmark Redirect: an application with the state URLs layer, a client
   that navigates and follows redirects *)

\* The configurations an application gives to with_state_urls_custom, and
\* the default one of with_state_urls.
MwConfigs ==
    {StateUrlsConfigNew, StateUrlsConfigDefault, with_denylist({"count"}),
     deny(StateUrlsConfigNew, {"sort"})}

\* Cookies of the client: state cookies and a session cookie.
MwCookieValues(c) ==
    CASE c = "count" -> {"", "3"}
      [] c = "sort" -> {"a b"}
      [] c = "session" -> {"abc"}

MwCookieNames == {"count", "sort", "session"}

\* Paths a client navigates to: a page and a component route.
MwPaths == {"/simple", "/counter"}

\* The URLs a client navigates to: without '?', with '?' alone, with a
\* parameter.
MwUrls ==
    {Url(path, FALSE, <<>>) : path \in MwPaths} \cup
    {Url(path, TRUE, q) : path \in MwPaths,
                          q \in {<<>>, <<Seg("count", TRUE, "5")>>}}

\* with_state_urls / with_state_urls_custom
MwConfigure(config) ==
    /\ mw_pc = "setup"
    /\ denylist' = config.denylist
    /\ mw_pc' = "idle"
    /\ UNCHANGED <<mw_req, mw_resp, mw_hops, handlerVars, urlVars, appVars,
                   ccVars, todoVars, lockVars>>

MwSetCookie(c, v) ==
    /\ mw_pc = "idle"
    /\ jar' = CookieAdd(jar, c, v)
    /\ UNCHANGED <<pc, req, state, ub, set_cookies, mwVars, urlVars, appVars,
                   ccVars, todoVars, lockVars>>

\* The client sends a request for a URL, with its cookies.
MwNavigate(u, hx_request, hx_current_url) ==
    /\ mw_pc = "idle"
    /\ mw_req' = [path |-> u.path, has_query |-> u.has_query, query |-> u.query,
                  hx_request |-> hx_request, hx_current_url |-> hx_current_url,
                  cookies |-> jar]
    /\ mw_hops' = 0
    /\ mw_pc' = "request"
    /\ UNCHANGED <<denylist, mw_resp, handlerVars, urlVars, appVars, ccVars,
                   todoVars, lockVars>>

\* The middleware answers: a redirect, or what the next handler does.
StateUrlsMiddleware ==
    /\ mw_pc = "request"
    /\ \E r \in state_urls_middleware_impl([denylist |-> denylist],
                                            mw_req.cookies, mw_req) :
         /\ mw_resp' = r
         /\ IF r.next_run
            THEN /\ state' = Downstream(r.passed, jar).state
                 /\ jar' = Downstream(r.passed, jar).jar
                 /\ set_cookies' = Downstream(r.passed, jar).set_cookies
                 /\ ub' = Downstream(r.passed, jar).ub
            ELSE UNCHANGED <<state, jar, set_cookies, ub>>
    /\ mw_pc' = "responded"
    /\ UNCHANGED <<denylist, mw_req, mw_hops, pc, req, urlVars, appVars,
                   ccVars, todoVars, lockVars>>

\* The client follows the redirect: a navigation to the Location URL.
MwFollowRedirect ==
    /\ mw_pc = "responded"
    /\ mw_resp.kind = "redirect"
    /\ mw_hops < MaxHops
    /\ mw_req' = [path |-> mw_resp.url.path, has_query |-> mw_resp.url.has_query,
                  query |-> mw_resp.url.query, hx_request |-> FALSE,
                  hx_current_url |-> NoHeader, cookies |-> jar]
    /\ mw_hops' = mw_hops + 1
    /\ mw_resp' = NoResponse
    /\ mw_pc' = "request"
    /\ UNCHANGED <<denylist, handlerVars, urlVars, appVars, ccVars, todoVars,
                   lockVars>>

\* The response of the handler reaches the client.
MwDone ==
    /\ mw_pc = "responded"
    /\ mw_resp.kind = "next"
    /\ mw_req' = NoNavigation
    /\ mw_resp' = NoResponse
    /\ mw_hops' = 0
    /\ state' = EmptyMap
    /\ set_cookies' = {}
    /\ ub' = NoBuilder
    /\ mw_pc' = "idle"
    /\ UNCHANGED <<denylist, jar, pc, req, urlVars, appVars, ccVars,
                   todoVars, lockVars>>

MwNext ==
    \/ \E config \in MwConfigs : MwConfigure(config)
    \/ \E c \in MwCookieNames : \E v \in MwCookieValues(c) : MwSetCookie(c, v)
    \/ \E u \in MwUrls : \E hx_request \in BOOLEAN :
           \E hx_current_url \in CurrentUrls :
               MwNavigate(u, hx_request, hx_current_url)
    \/ StateUrlsMiddleware
    \/ MwFollowRedirect
    \/ MwDone

MwSpec == Init /\ [][MwNext]_vars

-----------------------------------------------------------------------------
(* Startup: components are submitted to the registry at link time, app()
   routes them, the process serves *)

\* The methods a record declares or a request carries, among them one
\* app() takes for GET.
AppMethods == {"GET", "POST", "OPTIONS"}

AppPaths == {"/counter", "/todos/create"}

\* The records #[component] submits: names, paths and methods.
AppRecords ==
    {ComponentInfo(name, path, method) :
        name \in {"counter", "create"},
        path \in AppPaths,
        method \in AppMethods}

\* inventory::submit! running at any time, while the process serves too.
Submit_anytime(info, at) ==
    /\ Len(registry) < MaxComponents
    /\ at \in 1..(Len(registry) + 1)
    /\ registry' = SubSeq(registry, 1, at - 1) \o <<info>>
                       \o SubSeq(registry, at, Len(registry))
    /\ UNCHANGED <<router, app_pc, app_i, inflight, handlerVars, urlVars,
                   mwVars, ccVars, todoVars, lockVars>>

\* inventory::submit!: the record joins the registry; inventory iterates the
\* records in no specified order, so it may stand at any position.
Submit(info, at) ==
    /\ app_pc = "linking"
    /\ Len(registry) < MaxComponents
    /\ at \in 1..(Len(registry) + 1)
    /\ registry' = SubSeq(registry, 1, at - 1) \o <<info>>
                       \o SubSeq(registry, at, Len(registry))
    /\ UNCHANGED <<router, app_pc, app_i, inflight, handlerVars, urlVars,
                   mwVars, ccVars, todoVars, lockVars>>

\* app(): Router::new()
AppStart ==
    /\ app_pc = "linking"
    /\ router' = EmptyRouter
    /\ app_i' = 0
    /\ app_pc' = "building"
    /\ UNCHANGED <<registry, inflight, handlerVars, urlVars, mwVars, ccVars,
                   todoVars, lockVars>>

\* app(): one iteration of the loop over the registry.
AppRoute ==
    /\ app_pc = "building"
    /\ app_i < Len(registry)
    /\ LET component == registry[app_i + 1]
           routed == RouterRoute(router, component.path,
                                 MethodService(component.method,
                                               component.name))
       IN  IF routed = Panicked
           THEN app_pc' = "panicked" /\ UNCHANGED <<router, app_i>>
           ELSE router' = routed /\ app_i' = app_i + 1 /\ UNCHANGED app_pc
    /\ UNCHANGED <<registry, inflight, handlerVars, urlVars, mwVars, ccVars,
                   todoVars, lockVars>>

\* app() returns the router.
AppReturn ==
    /\ app_pc = "building"
    /\ app_i = Len(registry)
    /\ app_pc' = "built"
    /\ UNCHANGED <<registry, router, app_i, inflight, handlerVars, urlVars,
                   mwVars, ccVars, todoVars, lockVars>>

\* axum::serve(listener, app)
AppServe ==
    /\ app_pc = "built"
    /\ app_pc' = "serving"
    /\ UNCHANGED <<registry, router, app_i, inflight, handlerVars, urlVars,
                   mwVars, ccVars, todoVars, lockVars>>

\* A connection's task accepts a request while others are in flight.
AppAccept(method, path) ==
    /\ app_pc = "serving"
    /\ Cardinality(inflight) < MaxInflight
    /\ inflight' = inflight \cup
           {[method |-> method, path |-> path, handler |-> "accepted"]}
    /\ UNCHANGED <<registry, router, app_pc, app_i, handlerVars, urlVars,
                   mwVars, ccVars, todoVars, lockVars>>

\* The router dispatches one request in flight: it reads the route table and
\* calls the handler found there, or answers 404 or 405 itself.
AppDispatch(r) ==
    /\ app_pc = "serving"
    /\ r \in inflight
    /\ r.handler = "accepted"
    /\ inflight' = (inflight \ {r}) \cup
           {[r EXCEPT !.handler = Dispatch(router, r.method, r.path)]}
    /\ UNCHANGED <<registry, router, app_pc, app_i, handlerVars, urlVars,
                   mwVars, ccVars, todoVars, lockVars>>

\* The response of one request in flight is sent.
AppRespond(r) ==
    /\ app_pc = "serving"
    /\ r \in inflight
    /\ r.handler # "accepted"
    /\ inflight' = inflight \ {r}
    /\ UNCHANGED <<registry, router, app_pc, app_i, handlerVars, urlVars,
                   mwVars, ccVars, todoVars, lockVars>>

AppNext ==
    \/ \E info \in AppRecords : \E at \in 1..MaxComponents : Submit(info, at)
    \/ AppStart
    \/ AppRoute
    \/ AppReturn
    \/ AppServe
    \/ \E method \in AppMethods : \E path \in AppPaths : AppAccept(method, path)
    \/ \E r \in inflight : AppDispatch(r)
    \/ \E r \in inflight : AppRespond(r)

AppSpec == Init /\ [][AppNext]_vars

-----------------------------------------------------------------------------
(* Concurrent persistence: one client, two component requests in flight in
   any interleaving of sending, handling and applying the responses *)

\* Cookie and query values of the client.
CcValues(f) ==
    CASE f = "count" -> {"", "5"}
      [] f = "sort" -> {"", "name"}
      [] f = "filter" -> {"abc"}

\* The query strings of the client: none, or one parameter of the component.
CcQueries(component) ==
    {<<>>} \cup UNION {{<<Seg(f, TRUE, v)>> : v \in CcValues(f)} :
                          f \in Fields(StateTypeOf(component))}

\* The jar changes outside the server while no request is in flight.
CcSetCookie(c, v) ==
    /\ \A i \in CcSlots : cc_reqs[i].stage = "idle"
    /\ v # ""
    /\ cc_jar' = CookieAdd(cc_jar, c, v)
    /\ UNCHANGED <<cc_jar0, cc_reqs, handlerVars, urlVars, mwVars, appVars,
                   todoVars, lockVars>>

\* The client sends a request to a component route, with the cookies its jar
\* holds at that moment.
CcSend(i, component, q) ==
    /\ cc_reqs[i].stage = "idle"
    /\ cc_reqs' = [cc_reqs EXCEPT ![i] =
                      [stage |-> "sent", component |-> component, query |-> q,
                       cookies |-> cc_jar, set_cookies |-> {}]]
    /\ cc_jar0' = IF \A j \in CcSlots : cc_reqs[j].stage = "idle"
                  THEN cc_jar ELSE cc_jar0
    /\ UNCHANGED <<cc_jar, handlerVars, urlVars, mwVars, appVars, todoVars,
                   lockVars>>

\* The generated handler runs on the request: it resolves the state from the
\* request's query and cookies and makes its cookie calls.
CcHandle(i) ==
    /\ cc_reqs[i].stage = "sent"
    /\ LET T == StateTypeOf(cc_reqs[i].component)
           st == HandlerResolve(T, cc_reqs[i].query, cc_reqs[i].cookies)
       IN  cc_reqs' = [cc_reqs EXCEPT ![i].stage = "handled",
                                      ![i].set_cookies = CookieCalls(T, st)]
    /\ UNCHANGED <<cc_jar, cc_jar0, handlerVars, urlVars, mwVars, appVars,
                   todoVars, lockVars>>

\* The response reaches the client, which applies its Set-Cookie headers.
CcApply(i) ==
    /\ cc_reqs[i].stage = "handled"
    /\ cc_jar' = ApplySetCookies(cc_jar, cc_reqs[i].set_cookies)
    /\ cc_reqs' = [cc_reqs EXCEPT ![i].stage = "applied"]
    /\ UNCHANGED <<cc_jar0, handlerVars, urlVars, mwVars, appVars, todoVars,
                   lockVars>>

\* Every request sent has been answered.
CcDone ==
    /\ \E i \in CcSlots : cc_reqs[i].stage = "applied"
    /\ \A i \in CcSlots : cc_reqs[i].stage \in {"idle", "applied"}
    /\ cc_reqs' = [i \in CcSlots |-> CcIdle]
    /\ UNCHANGED <<cc_jar, cc_jar0, handlerVars, urlVars, mwVars, appVars,
                   todoVars, lockVars>>

CcNext ==
    \/ \E c \in FieldNames : \E v \in CcValues(c) : CcSetCookie(c, v)
    \/ \E i \in CcSlots : \E component \in Components :
           \E q \in CcQueries(component) : CcSend(i, component, q)
    \/ \E i \in CcSlots : CcHandle(i)
    \/ \E i \in CcSlots : CcApply(i)
    \/ CcDone

CcSpec == Init /\ [][CcNext]_vars

-----------------------------------------------------------------------------
(* todomvc: the handlers lock the TodoDb and call one TodoList method *)

\* Titles a form carries: two titles, an empty one, a blank one.
TodoTitles == {"a", "b", "", " "}

\* Ids a path carries: those the list has handed out and one it has not.
TodoPathIds == 0..MaxNextId

\* A list made by TodoList::new() takes the place of the default one.
TodoNew ==
    /\ todo_list = TodoListDefault
    /\ todo_removed = {}
    /\ todo_list' = TodoListNew
    /\ UNCHANGED <<todo_removed, handlerVars, urlVars, mwVars, appVars,
                   ccVars, lockVars>>

\* create_todo: a title that is not blank is added.
TodoAdd(title) ==
    /\ todo_list.next_id < MaxNextId
    /\ todo_list' = IF Trim(title) # "" THEN add(todo_list, Trim(title))
                    ELSE todo_list
    /\ UNCHANGED <<todo_removed, handlerVars, urlVars, mwVars, appVars,
                   ccVars, lockVars>>

\* toggle_todo
TodoToggle(id) ==
    /\ todo_list' = toggle(todo_list, id)
    /\ UNCHANGED <<todo_removed, handlerVars, urlVars, mwVars, appVars,
                   ccVars, lockVars>>

\* toggle_all
TodoToggleAll(completed) ==
    /\ todo_list' = toggle_all(todo_list, completed)
    /\ UNCHANGED <<todo_removed, handlerVars, urlVars, mwVars, appVars,
                   ccVars, lockVars>>

\* delete_todo
TodoDelete(id) ==
    /\ todo_list' = delete(todo_list, id)
    /\ todo_removed' = todo_removed \cup (TodoIds(todo_list) \ TodoIds(todo_list'))
    /\ UNCHANGED <<handlerVars, urlVars, mwVars, appVars, ccVars, lockVars>>

\* update_todo: a title that is not blank replaces the todo's title.
TodoUpdateTitle(id, title) ==
    /\ todo_list' = IF Trim(title) # ""
                    THEN update_title(todo_list, id, Trim(title))
                    ELSE todo_list
    /\ UNCHANGED <<todo_removed, handlerVars, urlVars, mwVars, appVars,
                   ccVars, lockVars>>

\* clear_completed
TodoClearCompleted ==
    /\ todo_list' = clear_completed(todo_list)
    /\ todo_removed' = todo_removed \cup (TodoIds(todo_list) \ TodoIds(todo_list'))
    /\ UNCHANGED <<handlerVars, urlVars, mwVars, appVars, ccVars, lockVars>>

TodoNext ==
    \/ TodoNew
    \/ \E title \in TodoTitles : TodoAdd(title)
    \/ \E id \in TodoPathIds : TodoToggle(id)
    \/ \E completed \in BOOLEAN : TodoToggleAll(completed)
    \/ \E id \in TodoPathIds : TodoDelete(id)
    \/ \E id \in TodoPathIds : \E title \in TodoTitles :
           TodoUpdateTitle(id, title)
    \/ TodoClearCompleted

TodoSpec == Init /\ [][TodoNext]_vars

-----------------------------------------------------------------------------
(* dashboard: concurrent user_table requests on the shared AppState; a step
   is one lock, one unlock or the work done between them *)

\* A user_table request arrives, with a logged-in session or without.
LkArrive(r, authenticated) ==
    /\ lk_req[r].pc = "idle"
    /\ authenticated =>
         request_count
           + Cardinality({x \in LkRequests :
                 /\ lk_req[x].authenticated
                 /\ lk_req[x].pc \in {"auth", "lock_users", "clone",
                                       "lock_count", "increment"}})
           < MaxRequestCount
    /\ lk_req' = [lk_req EXCEPT ![r] =
                     [pc |-> "auth", authenticated |-> authenticated]]
    /\ UNCHANGED <<lk_mutex, request_count, lk_completed,
                   handlerVars, urlVars, mwVars, appVars, ccVars, todoVars>>

\* if auth_session.user.is_none() { return ... }
LkAuth(r) ==
    /\ lk_req[r].pc = "auth"
    /\ lk_req' = [lk_req EXCEPT ![r].pc = IF lk_req[r].authenticated
                                          THEN "lock_users" ELSE "idle"]
    /\ UNCHANGED <<lk_mutex, request_count, lk_completed,
                   handlerVars, urlVars, mwVars, appVars, ccVars, todoVars>>

\* app_state.users.lock(): waits until the mutex is free.
LkLockUsers(r) ==
    /\ lk_req[r].pc = "lock_users"
    /\ lk_mutex["users"] = Free
    /\ lk_mutex' = [lk_mutex EXCEPT !["users"] = r]
    /\ lk_req' = [lk_req EXCEPT ![r].pc = "clone"]
    /\ UNCHANGED <<request_count, lk_completed,
                   handlerVars, urlVars, mwVars, appVars, ccVars, todoVars>>

\* The users guard kept to the end of the function.
LkCloneUsers_keeping(r) ==
    /\ lk_req[r].pc = "clone"
    /\ lk_req' = [lk_req EXCEPT ![r].pc = "lock_count"]
    /\ UNCHANGED <<lk_mutex, request_count, lk_completed,
                   handlerVars, urlVars, mwVars, appVars, ccVars, todoVars>>

\* .unwrap().clone(): the users are cloned and the guard, a temporary, is
\* dropped at the end of the statement.
LkCloneUsers(r) ==
    /\ lk_req[r].pc = "clone"
    /\ lk_mutex' = [lk_mutex EXCEPT !["users"] = Free]
    /\ lk_req' = [lk_req EXCEPT ![r].pc = "lock_count"]
    /\ UNCHANGED <<request_count, lk_completed,
                   handlerVars, urlVars, mwVars, appVars, ccVars, todoVars>>

\* let mut count = app_state.request_count.lock().unwrap();
LkLockCount(r) ==
    /\ lk_req[r].pc = "lock_count"
    /\ lk_mutex["request_count"] = Free
    /\ lk_mutex' = [lk_mutex EXCEPT !["request_count"] = r]
    /\ lk_req' = [lk_req EXCEPT ![r].pc = "increment"]
    /\ UNCHANGED <<request_count, lk_completed,
                   handlerVars, urlVars, mwVars, appVars, ccVars, todoVars>>

\* *count += 1; the guard is dropped at the end of the block.
LkIncrement(r) ==
    /\ lk_req[r].pc = "increment"
    /\ request_count' = request_count + 1
    /\ lk_mutex' = [lk_mutex EXCEPT !["request_count"] = Free]
    /\ lk_req' = [lk_req EXCEPT ![r].pc = "lock_count_again"]
    /\ UNCHANGED <<lk_completed,
                   handlerVars, urlVars, mwVars, appVars, ccVars, todoVars>>

\* let request_count = app_state.request_count.lock().unwrap(); the guard
\* lives to the end of the function.
LkLockCountAgain(r) ==
    /\ lk_req[r].pc = "lock_count_again"
    /\ lk_mutex["request_count"] = Free
    /\ lk_mutex' = [lk_mutex EXCEPT !["request_count"] = r]
    /\ lk_req' = [lk_req EXCEPT ![r].pc = "lock_users_again"]
    /\ UNCHANGED <<request_count, lk_completed,
                   handlerVars, urlVars, mwVars, appVars, ccVars, todoVars>>

\* app_state.users.lock() in the markup, while the request_count guard is
\* held.
LkLockUsersAgain(r) ==
    /\ lk_req[r].pc = "lock_users_again"
    /\ lk_mutex["users"] = Free
    /\ lk_mutex' = [lk_mutex EXCEPT !["users"] = r]
    /\ lk_req' = [lk_req EXCEPT ![r].pc = "len"]
    /\ UNCHANGED <<request_count, lk_completed,
                   handlerVars, urlVars, mwVars, appVars, ccVars, todoVars>>

\* .unwrap().len(): the users guard, a temporary, is dropped.
LkLen(r) ==
    /\ lk_req[r].pc = "len"
    /\ lk_mutex' = [lk_mutex EXCEPT !["users"] = Free]
    /\ lk_req' = [lk_req EXCEPT ![r].pc = "return"]
    /\ UNCHANGED <<request_count, lk_completed,
                   handlerVars, urlVars, mwVars, appVars, ccVars, todoVars>>

\* The function returns: the request_count guard is dropped.
LkReturn(r) ==
    /\ lk_req[r].pc = "return"
    /\ lk_mutex' = [lk_mutex EXCEPT !["request_count"] = Free]
    /\ lk_req' = [lk_req EXCEPT ![r].pc = "idle"]
    /\ lk_completed' = lk_completed + 1
    /\ UNCHANGED <<request_count,
                   handlerVars, urlVars, mwVars, appVars, ccVars, todoVars>>

\* The steps of a request once it has arrived.
LkStep(r) ==
    \/ LkAuth(r)
    \/ LkLockUsers(r)
    \/ LkCloneUsers(r)
    \/ LkLockCount(r)
    \/ LkIncrement(r)
    \/ LkLockCountAgain(r)
    \/ LkLockUsersAgain(r)
    \/ LkLen(r)
    \/ LkReturn(r)

LkNext ==
    \/ \E r \in LkRequests : \E authenticated \in BOOLEAN :
           LkArrive(r, authenticated)
    \/ \E r \in LkRequests : LkStep(r)

LkSpec == Init /\ [][LkNext]_vars

\* The runtime schedules every task that can run: a request that can take a
\* step does not wait forever.
LkFairSpec == LkSpec /\ \A r \in LkRequests : WF_vars(LkStep(r))

-----------------------------------------------------------------------------
(* What the claims speak of *)

\* The request in flight has its state resolved.
Resolved ==
    \/ req.kind = "component" /\ pc \in {"save", "url", "done"}
    \/ req.kind = "page" /\ pc = "done"

\* The request in flight has been handled: resolved and, in a component
\* handler, persisted.
Handled == pc = "done"

\* The fields the request in flight resolves.
ResolvedFields == DOMAIN state

\* The parameters of the request as a ParameterMap: key -> last value.
QueryKeys == {req.query[i].key : i \in 1..Len(req.query)}

QueryValue(k) ==
    LET i == CHOOSE i \in 1..Len(req.query) :
                 /\ req.query[i].key = k
                 /\ \A j \in (i+1)..Len(req.query) : req.query[j].key # k
    IN  req.query[i].val

\* A string as a value of field f: every string is a value of a String
\* field, the decimal integers are the values of an i32 field.
IsValueOf(f, x) == FieldType(f) = "String" \/ x \in DOMAIN I64Literals

ValueOf(f, x) ==
    IF FieldType(f) = "String" THEN JStr(x) ELSE JNum(I64Literals[x])

\* A string that reads as a number or a boolean.
LooksTyped(x) ==
    x \in DOMAIN I64Literals \cup DOMAIN F64Literals \cup F64NonFinite
          \cup DOMAIN BoolLiterals

\* A string that is a value of field f whatever rule reads it: an integer
\* for an i32 field, a string that reads as nothing else for a String field.
IsPlainValueOf(f, x) ==
    IF FieldType(f) = "String" THEN ~LooksTyped(x) ELSE x \in DOMAIN I64Literals

\* What precedence query > cookie > default makes of field f, for sources
\* that hold values of the field's type.
ByPrecedence(f, T) ==
    IF f \in QueryKeys THEN ValueOf(f, QueryValue(f))
    ELSE IF f \in DOMAIN req.cookies THEN ValueOf(f, req.cookies[f])
    ELSE Default(T)[f]

\* What cookie > default makes of field g.
ByCookieOrDefault(g, T) ==
    IF g \in DOMAIN req.cookies THEN ValueOf(g, req.cookies[g])
    ELSE Default(T)[g]

TypeOfField(f) == CHOOSE T \in StateTypes : f \in Fields(T)

\* No key occurs twice in the query of the request.
NoRepeatedKey ==
    \A i, j \in 1..Len(req.query) :
        req.query[i].key = req.query[j].key => i = j

\* The sources of field f hold plain values of its type, and no sentinel.
SourcesPlain(f) ==
    /\ f \in QueryKeys =>
         IsPlainValueOf(f, QueryValue(f)) /\ QueryValue(f) # UNSET_SENTINEL
    /\ f \in DOMAIN req.cookies => IsPlainValueOf(f, req.cookies[f])

\* The state type of the component or page the request goes to (each page
\* here resolves one).
TargetType ==
    IF req.kind = "component" THEN StateTypeOf(req.target)
    ELSE CHOOSE T \in PageStateTypes(req.target) : TRUE

-----------------------------------------------------------------------------
(* Claims *)

\* C1: state resolution is per-field with strict precedence: the resolved
\* value of a field is the query value if the query contains the field,
\* otherwise the cookie value if a cookie of that name exists, otherwise the
\* default; for StateLoader::load and for a component handler.  Stated for
\* requests whose query names no key twice and whose sources all hold plain
\* values of their fields' types.
C1_StrictPrecedence ==
    (Resolved /\ NoRepeatedKey /\ \A f \in ResolvedFields : SourcesPlain(f)) =>
        \A f \in ResolvedFields : state[f] = ByPrecedence(f, TypeOfField(f))

\* C2: in a component handler the query wins over the cookie even when the
\* query value of the field equals the field's default and the cookie holds
\* another value.
C2_QueryWinsAtDefault ==
    (Resolved /\ req.kind = "component") =>
        \A f \in ResolvedFields :
            ( /\ f \in QueryKeys
              /\ IsValueOf(f, QueryValue(f))
              /\ ValueOf(f, QueryValue(f)) = Default(TypeOfField(f))[f]
              /\ f \in DOMAIN req.cookies
              /\ req.cookies[f] # QueryValue(f) )
            => state[f] = ValueOf(f, QueryValue(f))

\* C3: resolution is field-independent: when the query supplies only field
\* f, every other field g of the state type resolves to its cookie value if
\* a cookie g exists and to its default otherwise, and no other value given
\* for f would resolve g differently.
C3_FieldIndependent ==
    (Resolved /\ Len(req.query) = 1) =>
        LET f == req.query[1].key
            T == TargetType
        IN  \A g \in Fields(T) \ {f} :
              (g \in DOMAIN req.cookies => IsPlainValueOf(g, req.cookies[g])) =>
                /\ state[g] = ByCookieOrDefault(g, T)
                /\ \A v \in InputValues(f) :
                     IF req.kind = "component"
                     THEN HandlerResolve(T, <<Seg(f, TRUE, v)>>, req.cookies)[g]
                              = state[g]
                     ELSE load(T, req.cookies, QueryMap(<<Seg(f, TRUE, v)>>))[g]
                              = state[g]

\* C4: when the query value of field f is the unset sentinel, f resolves to
\* the empty string and, once the request is handled, no cookie named f
\* remains, whatever the cookie held before.  Stated for the String fields
\* of a component request.
C4_SentinelClears ==
    (Handled /\ req.kind = "component" /\ NoRepeatedKey) =>
        \A f \in ResolvedFields :
            ( /\ FieldType(f) = "String"
              /\ f \in QueryKeys
              /\ QueryValue(f) = UNSET_SENTINEL )
            => state[f] = JStr("") /\ f \notin DOMAIN jar

\* C5: Scenario A: {count: int}, default 0, cookie count=5; a component
\* request with query count=<sentinel> resolves count to 0 and removes the
\* count cookie.
C5_ScenarioA_Sentinel ==
    ( /\ Handled
      /\ req.kind = "component" /\ req.target = "counter"
      /\ req.query = <<Seg("count", TRUE, UNSET_SENTINEL)>>
      /\ "count" \in DOMAIN req.cookies /\ req.cookies["count"] = "5" )
    => state["count"] = JNum(0) /\ "count" \notin DOMAIN jar

\* The request in flight is a component request whose state has been
\* resolved and saved to cookies.
Persisted == req.kind = "component" /\ pc \in {"url", "done"}

\* C6: cookie persistence is idempotent: resolving, persisting, and resolving
\* again with the same query against the updated jar yields the same state,
\* and persisting again leaves the jar unchanged.
C6_PersistIdempotent ==
    Persisted =>
        LET T == StateTypeOf(req.target)
        IN  /\ HandlerResolve(T, req.query, jar) = state
            /\ SaveCookies(T, HandlerResolve(T, req.query, jar), jar) = jar

\* C6 witness: a persisted request whose state took a field from a cookie
\* and whose persistence changed the jar.
C6_Witness ==
    /\ Persisted
    /\ jar # req.cookies
    /\ \E f \in ResolvedFields :
         /\ f \notin QueryKeys
         /\ f \in DOMAIN req.cookies
         /\ state[f] # Default(TypeOfField(f))[f]

\* C7: round trip through cookies: resolving a request, persisting, and
\* resolving a follow-up request without query yields the state of the first
\* resolution, also for String fields whose value looks like a number or a
\* boolean.
C7_CookieRoundTrip ==
    Persisted => HandlerResolve(StateTypeOf(req.target), <<>>, jar) = state

\* A build function has returned url_out.
Built == url_pc \in {"build", "build_main_url", "build_page_url"}

\* The keys of the query string given to new(), and the value of the last
\* segment with key k.
SeedKeys == {url_q[i].key : i \in 1..Len(url_q)} \ {""}

SeedValue(k) ==
    LET i == CHOOSE i \in 1..Len(url_q) :
                 /\ url_q[i].key = k
                 /\ \A j \in (i+1)..Len(url_q) : url_q[j].key # k
    IN  IF url_q[i].eq THEN url_q[i].val ELSE ""

\* The keys given to with_params, and the value of the last pair with key k.
GivenKeys == {url_log[i].k : i \in 1..Len(url_log)}

GivenValue(k) ==
    LET i == CHOOSE i \in 1..Len(url_log) :
                 /\ url_log[i].k = k
                 /\ \A j \in (i+1)..Len(url_log) : url_log[j].k # k
    IN  url_log[i].v

\* The URL holds parameter k with value v.
UrlHolds(u, k, v) ==
    \E i \in 1..Len(u.query) : u.query[i] = Seg(FormEncode(k), TRUE, FormEncode(v))

\* C8: the output of build, build_main_url and build_page_url holds no
\* parameter with an empty key or an empty value, whatever new, with_main_page
\* and with_params were given; with no parameter left it is the bare path
\* without '?', as in new("/x","count=0").with_params([("count","")]).build()
\* == "/x".
C8_NoEmptyParameter ==
    Built =>
        /\ \A i \in 1..Len(url_out.query) :
             url_out.query[i].key # "" /\ url_out.query[i].val # ""
        /\ url_out.has_query = (url_out.query # <<>>)
        /\ ( /\ url_pc = "build"
             /\ url_b.path = "/x"
             /\ url_q = <<Seg("count", TRUE, "0")>>
             /\ url_log = <<[k |-> "count", v |-> ""]>> )
           => url_out = Url("/x", FALSE, <<>>)

\* C8 witness: a URL built after with_params was given an empty key and an
\* empty value, and the example of the claim.
C8_Witness ==
    /\ url_pc = "build"
    /\ url_b.path = "/x"
    /\ url_q = <<Seg("count", TRUE, "0")>>
    /\ url_log = <<[k |-> "count", v |-> ""]>>

\* C9: sibling state is preserved: every parameter of the query string given
\* to new() that has a non-empty value and whose key no with_params call
\* named is in all_params() with its value, and in the output of build() and
\* build_main_url().
C9_SiblingPreserved ==
    url_pc # "idle" =>
        \A k \in SeedKeys \ GivenKeys :
            SeedValue(k) # "" =>
                /\ k \in DOMAIN all_params(url_b)
                /\ all_params(url_b)[k] = SeedValue(k)
                /\ url_pc \in {"build", "build_main_url"} =>
                     UrlHolds(url_out, k, SeedValue(k))

\* C9 witness: a URL built after with_params changed one key of a query
\* string that holds another.
C9_Witness ==
    /\ url_pc = "build"
    /\ url_q = <<Seg("a", TRUE, "1"), Seg("b", TRUE, "2")>>
    /\ url_log = <<[k |-> "b", v |-> "3"]>>
    /\ UrlHolds(url_out, "a", "1")

\* C10: merge is last-write-wins: all_params() is the map of the query
\* string given to new() (a repeated key has the value of its last
\* occurrence) overlaid with the with_params pairs in call order; as in
\* new("/x","a=1&b=2").with_params([("b","3")]).all_params() == {a:"1", b:"3"}.
C10_LastWriteWins ==
    url_pc # "idle" =>
        /\ DOMAIN all_params(url_b) = SeedKeys \cup GivenKeys
        /\ \A k \in SeedKeys \cup GivenKeys :
             all_params(url_b)[k] =
                 IF k \in GivenKeys THEN GivenValue(k) ELSE SeedValue(k)
        /\ ( /\ url_q = <<Seg("a", TRUE, "1"), Seg("b", TRUE, "2")>>
             /\ url_log = <<[k |-> "b", v |-> "3"]>> )
           => all_params(url_b) = [k \in {"a", "b"} |-> IF k = "a" THEN "1" ELSE "3"]

\* C10 witness: a key repeated in the query string and given again to
\* with_params twice.
C10_Witness ==
    /\ url_pc = "building"
    /\ url_q = <<Seg("b", TRUE, "2"), Seg("b", TRUE, "")>>
    /\ url_log = <<[k |-> "b", v |-> "3"], [k |-> "b", v |-> "3"]>>

\* The path build_main_url writes for: the one last given to
\* with_main_page, or "/".
LogicalPagePath == IF url_main = NonePath THEN "/" ELSE url_main

\* C11: build_main_url() serializes the same filtered parameter set as
\* build() against the logical page path: the path the last with_main_page
\* call recorded, or "/" when there was none, whatever the base path is; and
\* with_main_page never changes what build() returns.
C11_MainUrl ==
    /\ url_pc = "build_main_url" =>
         /\ url_out.path = LogicalPagePath
         /\ \E u \in build(url_b) :
              u.has_query = url_out.has_query /\ u.query = url_out.query
    /\ url_pc = "building" =>
         /\ {[has_query |-> u.has_query, query |-> u.query] :
                u \in build_main_url(url_b)}
            = {[has_query |-> u.has_query, query |-> u.query] :
                u \in build(url_b)}
         /\ \A page \in UrlMainPages :
              build(with_main_page(url_b, page)) = build(url_b)

\* C11 witness: a main URL built after two with_main_page calls, the last
\* one for /users, above a base path that is neither, with a parameter that
\* is kept and one that is filtered out.
C11_Witness ==
    /\ url_pc = "build_main_url"
    /\ url_b.path = "/x"
    /\ url_main = "/users"
    /\ url_q = <<Seg("a", TRUE, "1"), Seg("b", TRUE, "")>>
    /\ url_out = Url("/users", TRUE, <<Seg("a", TRUE, "1")>>)

\* C11 second case: no with_main_page call, the main URL is written for "/".
C11_DefaultWitness ==
    /\ url_pc = "build_main_url"
    /\ url_main = NonePath
    /\ url_out.path = "/"

\* The middleware has answered the request in flight.
MwAnswered == mw_pc = "responded"

\* The cookies of the request that Bookmark Redirect promotes: the name is
\* not in the denylist and the value is not empty.
Promoted == {c \in DOMAIN mw_req.cookies :
                c \notin denylist /\ mw_req.cookies[c] # ""}

C12_RedirectWitness ==
    MwAnswered /\ mw_resp.kind = "redirect" /\ mw_req.path = "/simple"

\* Cookie jars over the cookie names of the clients.
JarsOver(names) ==
    UNION {[S -> UNION {MwCookieValues(c) : c \in names}] : S \in SUBSET names}

\* Two jars that differ in denylisted cookies only.
SameButDenylisted(c1, c2) ==
    /\ DOMAIN c1 \ denylist = DOMAIN c2 \ denylist
    /\ \A c \in DOMAIN c1 \ denylist : c1[c] = c2[c]

\* The parameters of a URL, decoded: the (key, value) pairs.
UrlParams(u) ==
    {<<FormDecode(u.query[i].key), FormDecode(u.query[i].val)>> :
        i \in 1..Len(u.query)}

\* C13: the redirect of Bookmark Redirect goes to the path of the request
\* and its parameters are exactly the cookies whose name is not in the
\* denylist and whose value is not empty; no denylisted cookie name is in the
\* URL, and two jars that differ only in denylisted cookies give the same
\* outcome; /simple with cookie count=3 redirects to /simple?count=3 under the
\* empty denylist and is not redirected when the denylist holds count.
C13_RedirectTarget ==
    MwAnswered =>
        /\ mw_resp.kind = "redirect" =>
             /\ mw_resp.url.path = mw_req.path
             /\ mw_resp.url.has_query
             /\ UrlParams(mw_resp.url) = {<<c, mw_req.cookies[c]>> : c \in Promoted}
             /\ Len(mw_resp.url.query) = Cardinality(Promoted)
             /\ \A i \in 1..Len(mw_resp.url.query) :
                  /\ mw_resp.url.query[i].eq
                  /\ FormDecode(mw_resp.url.query[i].key) \notin denylist
        /\ \A c2 \in JarsOver(MwCookieNames) :
             SameButDenylisted(mw_req.cookies, c2) =>
                 state_urls_middleware_impl([denylist |-> denylist], c2, mw_req)
                 = state_urls_middleware_impl([denylist |-> denylist],
                                              mw_req.cookies, mw_req)
        /\ ( /\ mw_req.path = "/simple" /\ ~mw_req.has_query /\ ~mw_req.hx_request
             /\ mw_req.cookies = [c \in {"count"} |-> "3"] ) =>
               /\ denylist = {} =>
                    mw_resp = [kind |-> "redirect",
                               url |-> Url("/simple", TRUE, <<Seg("count", TRUE, "3")>>),
                               next_run |-> FALSE, passed |-> NoNavigation]
               /\ "count" \in denylist => mw_resp.kind = "next"

\* C13 witness: a redirect from a jar that holds a denylisted cookie, a
\* cookie with an empty value and a cookie whose value needs encoding.
C13_Witness ==
    /\ MwAnswered
    /\ mw_resp.kind = "redirect"
    /\ "session" \in denylist
    /\ mw_req.cookies = [c \in {"count", "session", "sort"} |->
                            CASE c = "count" -> "" [] c = "session" -> "abc"
                              [] c = "sort" -> "a b"]
    /\ mw_resp.url = Url(mw_req.path, TRUE, <<Seg("sort", TRUE, "a+b")>>)

\* C13 second case: Scenario B, both halves.
C13_ScenarioB_Redirect ==
    /\ MwAnswered /\ denylist = {} /\ mw_req.path = "/simple"
    /\ mw_req.cookies = [c \in {"count"} |-> "3"]
    /\ mw_resp.kind = "redirect"

C13_ScenarioB_Denied ==
    /\ MwAnswered /\ denylist = {"count"} /\ mw_req.path = "/simple"
    /\ mw_req.cookies = [c \in {"count"} |-> "3"]
    /\ ~mw_req.has_query /\ ~mw_req.hx_request
    /\ mw_resp.kind = "next"

\* C14: Bookmark Redirect never loops: the request a client issues by
\* following a bookmark redirect carries a query string and is passed
\* through, so a navigation is redirected at most once before it reaches a
\* handler.
C14_NoRedirectLoop ==
    /\ mw_hops <= 1
    /\ mw_hops = 1 =>
         /\ mw_req.has_query
         /\ MwAnswered => mw_resp.kind = "next" /\ mw_resp.next_run

\* C14 witness: the request that follows a redirect has reached the handler.
C14_Witness ==
    /\ MwAnswered /\ mw_hops = 1
    /\ mw_resp.kind = "next"
    /\ state # EmptyMap

\* C15: when the middleware answers with a redirect, the page or component
\* handler is not run for that request: no state is resolved and no cookie
\* is set or removed.
C15_RedirectBeforeHandler ==
    (MwAnswered /\ mw_resp.kind = "redirect") =>
        /\ ~mw_resp.next_run
        /\ state = EmptyMap
        /\ set_cookies = {}
        /\ jar = mw_req.cookies

\* C15 witness: a redirect for a component route whose handler would have
\* resolved state and changed the jar.
C15_Witness ==
    /\ MwAnswered /\ mw_resp.kind = "redirect"
    /\ mw_req.path = "/counter"
    /\ Downstream(mw_req, jar).jar # jar

\* A scalar as a cookie holds it: a string as it is, a number or boolean
\* as it prints.
Stringified(v) ==
    CASE v.t = "str" -> v.s
      [] v.t = "int" -> I64ToString(v.n)
      [] v.t = "float" -> v.s
      [] v.t = "bool" -> IF v.n = 1 THEN "true" ELSE "false"

\* C16: cookie persistence writes one cookie per state field: after the
\* persistence step of a component request, for every field f of the
\* resolved state, if the stringified value is not empty a cookie f with
\* that value and path "/" is set, and if it is empty no cookie f remains.
C16_OneCookiePerField ==
    Persisted =>
        /\ \A f \in ResolvedFields :
             IF Stringified(state[f]) # ""
             THEN /\ f \in DOMAIN jar /\ jar[f] = Stringified(state[f])
                  /\ [op |-> "add", name |-> f, value |-> Stringified(state[f]),
                      path |-> "/"] \in set_cookies
             ELSE /\ f \notin DOMAIN jar
                  /\ \E call \in set_cookies : call.op = "remove" /\ call.name = f
        /\ Cardinality(set_cookies) = Cardinality(ResolvedFields)
        /\ \A c \in DOMAIN jar \ ResolvedFields :
             c \in DOMAIN req.cookies /\ jar[c] = req.cookies[c]

\* C16 witness: one request overwrites the cookie of a field with another
\* value and deletes the cookie of a field whose value is empty.
C16_Witness ==
    /\ Persisted
    /\ \E f, g \in ResolvedFields :
         /\ f \in DOMAIN req.cookies /\ Stringified(state[f]) = ""
         /\ g \in DOMAIN req.cookies /\ Stringified(state[g]) # ""
         /\ req.cookies[g] # jar[g]

\* C17: persistence runs after resolution on every request that touches a
\* component: once a request is handled by a component handler or by a page
\* that resolves a component's state, the resolved state has been written
\* back to the cookies of its fields.
C17_AlwaysPersisted ==
    Handled =>
        \A f \in ResolvedFields :
            IF Stringified(state[f]) # ""
            THEN f \in DOMAIN jar /\ jar[f] = Stringified(state[f])
            ELSE f \notin DOMAIN jar

\* The field map the request in flight merges from default, cookie and
\* query values, before it is deserialized into the state type.
MergedMap ==
    LET T == TargetType
    IN  IF req.kind = "component"
        THEN HydratedObject(T, StateExtractor(T, req.query), req.cookies)
        ELSE [f \in Fields(T) |->
                 LoadField(Default(T)[f], f, req.cookies, QueryMap(req.query))]

\* C18: whole-object fallback: if the field map merged from default, cookie
\* and query values cannot be deserialized into the state type, the resolved
\* state is the type's default in every field; no field keeps a value the
\* query or a cookie supplied.
C18_WholeObjectFallback ==
    (Resolved /\ ~FromValueOk(TargetType, MergedMap)) =>
        state = Default(TargetType)

\* The raw values the request in flight holds for field f: the values of
\* the query segments with key f and the value of the cookie f.
SourceValues(f) ==
    {req.query[i].val : i \in {j \in 1..Len(req.query) : req.query[j].key = f}}
    \cup (IF f \in DOMAIN req.cookies THEN {req.cookies[f]} ELSE {})

\* The request in flight has a state: extracted, hydrated or loaded.
HasState ==
    \/ req.kind = "component" /\ pc \in {"hydrate", "save", "url", "done"}
    \/ req.kind = "page" /\ pc = "done"

\* A well-formed URL: every segment is key=value with neither empty.
WellFormedUrl(u) ==
    /\ u.has_query = (u.query # <<>>)
    /\ \A i \in 1..Len(u.query) :
         u.query[i].eq /\ u.query[i].key # "" /\ u.query[i].val # ""

\* C19: resolution and URL building are fail-soft and total: for every
\* query string and cookie jar, malformed segments, unparsable cookie values
\* and type mismatches included, resolution gives a state with a value of
\* its type in every field, which is the reading of one of the field's
\* source values or the field's default, and the UrlBuilder gives URLs;
\* nothing rejects the request.
C19_FailSoft ==
    /\ HasState =>
         /\ DOMAIN state = Fields(TargetType)
         /\ \A f \in Fields(TargetType) :
              /\ FieldAccepts(f, state[f])
              /\ \/ state[f] = Default(TargetType)[f]
                 \/ \E x \in SourceValues(f) :
                      IsValueOf(f, x) /\ state[f] = ValueOf(f, x)
    /\ (req.kind = "component" /\ pc = "done") =>
         /\ ub.path = RoutePath(req.target)
         /\ build(ub) # {} /\ build_main_url(ub) # {}
         /\ \A u \in build(ub) \cup build_main_url(ub) : WellFormedUrl(u)

\* C19 witness: a component request with a malformed segment, a value of
\* another type in a cookie and a repeated key has been answered.
C19_Witness ==
    /\ req.kind = "component" /\ pc = "done"
    /\ req.query = <<Seg("count", FALSE, ""), Seg("count", TRUE, "1.5")>>
    /\ "count" \in DOMAIN req.cookies /\ req.cookies["count"] = "1.5"
    /\ state = Default("CounterState")

\* C19 second case: StateLoader::load with a value of another type.
C19_LoaderWitness ==
    /\ req.kind = "page" /\ pc = "done"
    /\ \E f \in ResolvedFields :
         f \in QueryKeys /\ ~IsPlainValueOf(f, QueryValue(f))

\* Two records of the registry claim the same path and the same method.
Collision ==
    \E i, j \in 1..Len(registry) :
        /\ i # j
        /\ registry[i].path = registry[j].path
        /\ registry[i].method = registry[j].method

\* C20: a registry collision is fatal at startup: if two registered records
\* claim the same path and the same method, app() fails before the process
\* serves; it never serves with one record shadowing the other.
C20_CollisionFatal ==
    /\ app_pc \in {"built", "serving"} =>
         /\ ~Collision
         /\ app_i = Len(registry)
         /\ \A i \in 1..Len(registry) :
              /\ registry[i].path \in DOMAIN router
              /\ MethodService(registry[i].method, registry[i].name).method
                     \in DOMAIN router[registry[i].path]
    /\ (Collision /\ app_pc \notin {"linking", "building"}) => app_pc = "panicked"

\* C20 witness: app() has panicked on a registry of three records, two of
\* which claim the same path and method under different names.
C20_Witness ==
    /\ app_pc = "panicked"
    /\ Len(registry) = 3
    /\ \E i, j \in 1..3 :
         /\ registry[i].path = registry[j].path
         /\ registry[i].method = registry[j].method
         /\ registry[i].name # registry[j].name

\* C20 second case: a registry without a collision is served.
C20_ServingWitness ==
    /\ app_pc = "serving"
    /\ Len(registry) = 3
    /\ \E i, j \in 1..3 : i # j /\ registry[i].path = registry[j].path

\* C21: the registry is written once and then frozen: records join it only
\* before app() runs, and once app() has returned no step, under any
\* interleaving of the requests in flight, adds, removes or changes a record
\* or a route.
C21_RegistryFrozen ==
    [][/\ app_pc # "linking" => registry' = registry
       /\ app_pc \in {"built", "serving"} => router' = router]_vars

\* C21 witness: the process serves three records with two requests in
\* flight, one of them already dispatched to a component's handler.
C21_Witness ==
    /\ app_pc = "serving"
    /\ Len(registry) = 3
    /\ Cardinality(inflight) = 2
    /\ \E r \in inflight : r.handler \in {"counter", "create"}
    /\ \E r \in inflight : r.handler = "accepted"

\* C23: each route-table entry maps exactly one (method, path) to one
\* handler: once app() has returned, the router answers a request on a
\* record's declared method and path with that record's handler, and answers
\* with that handler on no method the registry does not declare for it.
C23_DeclaredMethodOnly ==
    app_pc \in {"built", "serving"} =>
        \A i \in 1..Len(registry) :
            /\ Dispatch(router, registry[i].method, registry[i].path)
                   = registry[i].name
            /\ \A m \in AppMethods :
                   Dispatch(router, m, registry[i].path) = registry[i].name
                   => \E j \in 1..Len(registry) :
                          registry[j] = ComponentInfo(registry[i].name,
                                                      registry[i].path, m)

\* C22: one marker tells a partial update from a full navigation: on a
\* component route, the Bookmark Redirect skips the request as a partial
\* update exactly when the component handler applies the logical-page
\* override to its UrlBuilder.
C22_SingleMarker ==
    (mw_pc = "responded" /\ mw_resp.kind = "next" /\ mw_req.path \notin Pages)
        => (IsHtmxRequest(mw_req) <=> ub.main_page_path # NonePath)

\* C24: a response built with with_push_url(u), u being the output of
\* build_main_url(), carries the header HX-Push-Url with the value u; a
\* response built without with_push_url carries no such header.
C24_PushUrlHeader ==
    url_pc = "into_response" =>
        /\ url_html.push_url # NoUrl =>
              /\ url_html.push_url[1] \in build_main_url(url_b)
              /\ "HX-Push-Url" \in DOMAIN url_resp.headers
              /\ url_resp.headers["HX-Push-Url"] = url_html.push_url[1]
        /\ url_html.push_url = NoUrl =>
              "HX-Push-Url" \notin DOMAIN url_resp.headers

\* C24 witness: the response of a component that pushed the main URL of the
\* logical page /simple, with two parameters in its query.
C24_Witness ==
    /\ url_pc = "into_response"
    /\ url_html.push_url # NoUrl
    /\ url_main = "/simple"
    /\ url_out.path = "/simple"
    /\ Len(url_out.query) = 2
    /\ url_resp.headers = [h \in {"HX-Push-Url"} |-> url_out]

\* C24 second case: the response of a component that pushed nothing.
C24_PlainWitness ==
    /\ url_pc = "into_response"
    /\ url_html.push_url = NoUrl
    /\ url_resp = [status |-> 200, headers |-> EmptyMap]

\* The state a request of the kind and target of the one in flight resolves
\* from the query q and the cookies.
ResolutionOf(q, cookies) ==
    IF req.kind = "component"
    THEN HandlerResolve(StateTypeOf(req.target), q, cookies)
    ELSE [f \in UNION {Fields(T) : T \in PageStateTypes(req.target)} |->
             load(CHOOSE T \in PageStateTypes(req.target) : f \in Fields(T),
                  cookies, QueryMap(q))[f]]

\* C25: cookie and query values are read by the same type-inference rule:
\* for every field f and string s other than the sentinel, resolving with s
\* as f's cookie and no query value for f gives f the value that resolving
\* with s as f's query value and no cookie for f gives it.
C25_SameInference ==
    Resolved =>
        \A f \in (ResolvedFields \cap DOMAIN req.cookies) \ QueryKeys :
            req.cookies[f] # UNSET_SENTINEL =>
                state[f] = ResolutionOf(
                               Append(req.query, Seg(f, TRUE, req.cookies[f])),
                               CookieRemove(req.cookies, f))[f]

\* A string that is no sentinel and reads as a string.
PlainString == "name"

\* The cookies with the cookie of f replaced by the plain string.
WithPlainCookie(cookies, f) == [cookies EXCEPT ![f] = PlainString]

\* The query with the sentinel values of f replaced by the plain string.
WithPlainQuery(q, f) ==
    [i \in 1..Len(q) |->
        IF q[i].key = f /\ q[i].val = UNSET_SENTINEL
        THEN [q[i] EXCEPT !.val = PlainString]
        ELSE q[i]]

\* The value with the plain string replaced by the sentinel string.
AsSentinel(v) == IF v = JStr(PlainString) THEN JStr(UNSET_SENTINEL) ELSE v

\* C26: the sentinel is recognised only as a query value: a cookie equal to
\* the sentinel is read as any other string of its field, neither emptying
\* the field nor being deleted for being the sentinel, and a sentinel in the
\* query for one field leaves every other field resolved as a plain string
\* in its place would.
C26_SentinelOnlyInQuery ==
    Resolved =>
        /\ \A f \in (ResolvedFields \cap DOMAIN req.cookies) \ QueryKeys :
              req.cookies[f] = UNSET_SENTINEL =>
                /\ state[f] = AsSentinel(
                       ResolutionOf(req.query, WithPlainCookie(req.cookies, f))[f])
                /\ FieldType(f) = "String" /\ state # ResolutionOf(<<>>, EmptyMap)
                       => state[f] = JStr(UNSET_SENTINEL)
                /\ req.kind = "page" => jar[f] = UNSET_SENTINEL
                /\ Handled /\ state[f] = JStr(UNSET_SENTINEL)
                       => f \in DOMAIN jar /\ jar[f] = UNSET_SENTINEL
        /\ \A f \in ResolvedFields \cap QueryKeys :
              QueryValue(f) = UNSET_SENTINEL =>
                \A g \in ResolvedFields \ {f} :
                    state[g] = ResolutionOf(WithPlainQuery(req.query, f),
                                            req.cookies)[g]

\* C26 witness: a page has resolved its state with the sentinel as the
\* cookie of sort; sort is the sentinel string and the cookie is kept.
C26_Witness ==
    /\ Handled
    /\ req.kind = "page"
    /\ req.target = "/users"
    /\ req.query = <<>>
    /\ "sort" \in DOMAIN req.cookies
    /\ req.cookies["sort"] = UNSET_SENTINEL
    /\ state["sort"] = JStr(UNSET_SENTINEL)
    /\ jar["sort"] = UNSET_SENTINEL

\* C26, the same case in a component handler.
C26_HandlerWitness ==
    /\ Handled
    /\ req.kind = "component"
    /\ req.target = "user_table"
    /\ req.query = <<>>
    /\ "sort" \in DOMAIN req.cookies
    /\ req.cookies["sort"] = UNSET_SENTINEL
    /\ state["sort"] = JStr(UNSET_SENTINEL)
    /\ jar["sort"] = UNSET_SENTINEL

\* C26 second case: a page resolved sort from the sentinel in the query and
\* filter from its cookie.
C26_QueryWitness ==
    /\ Handled
    /\ req.kind = "page"
    /\ req.target = "/users"
    /\ req.query = <<Seg("sort", TRUE, UNSET_SENTINEL)>>
    /\ "filter" \in DOMAIN req.cookies
    /\ "sort" \in DOMAIN req.cookies
    /\ state["sort"] = JStr("")
    /\ state["filter"] = JStr("abc")

\* The parameters with a non-empty value.
NonEmptyParams(m) == [k \in {x \in DOMAIN m : m[x] # ""} |-> m[k]]

\* C27: following a link is a fixed point: the URL build() emits on the
\* UrlBuilder of a request whose parameters no with_params changed, when
\* requested, gives a UrlBuilder with the same non-empty parameters, values
\* with percent-encoded or reserved characters included.
C27_LinkFixedPoint ==
    (url_pc = "build" /\ url_log = <<>>) =>
        NonEmptyParams(all_params(UrlBuilderNew(url_b.path, url_out.query)))
            = NonEmptyParams(all_params(url_b))

\* The jar after the handler of component has run on query q and the cookies
\* of the jar, and the client has applied the response.
JarAfter(component, q, cookies) ==
    SaveCookies(StateTypeOf(component),
                HandlerResolve(StateTypeOf(component), q, cookies), cookies)

\* C28: persistence by components with disjoint fields commutes: each
\* handler sets or deletes only the cookies of its own fields, and once two
\* such requests have been answered the jar is the one either sequential
\* order gives, whatever the interleaving was.
C28_DisjointCommute ==
    /\ \A i \in CcSlots :
          cc_reqs[i].stage \in {"handled", "applied"} =>
              /\ cc_reqs[i].set_cookies # {}
              /\ {c.name : c \in cc_reqs[i].set_cookies}
                     \subseteq Fields(StateTypeOf(cc_reqs[i].component))
    /\ ( /\ \A i \in CcSlots : cc_reqs[i].stage = "applied"
         /\ Fields(StateTypeOf(cc_reqs[1].component))
              \cap Fields(StateTypeOf(cc_reqs[2].component)) = {} )
        => /\ cc_jar = JarAfter(cc_reqs[2].component, cc_reqs[2].query,
                                JarAfter(cc_reqs[1].component, cc_reqs[1].query,
                                         cc_jar0))
           /\ cc_jar = JarAfter(cc_reqs[1].component, cc_reqs[1].query,
                                JarAfter(cc_reqs[2].component, cc_reqs[2].query,
                                         cc_jar0))

\* C28 witness: a counter and a user_table request left with the same
\* cookies, both wrote a cookie and both responses have been applied.
C28_Witness ==
    /\ \A i \in CcSlots : cc_reqs[i].stage = "applied"
    /\ cc_reqs[1].component = "counter"
    /\ cc_reqs[2].component = "user_table"
    /\ cc_reqs[1].cookies = cc_jar0
    /\ cc_reqs[2].cookies = cc_jar0
    /\ DOMAIN cc_jar0 = {"filter"}
    /\ cc_reqs[1].query = <<Seg("count", TRUE, "5")>>
    /\ cc_reqs[2].query = <<Seg("sort", TRUE, "name")>>
    /\ cc_jar = [c \in {"count", "sort", "filter"} |->
                    CASE c = "count" -> "5" [] c = "sort" -> "name"
                      [] c = "filter" -> "abc"]

\* C29: TodoList ids are unique and never reused: from TodoList::default()
\* or TodoList::new(), after any sequence of add, toggle, toggle_all, delete,
\* update_title and clear_completed the todos have pairwise distinct ids,
\* every id is smaller than next_id, no todo carries an id that delete or
\* clear_completed removed, and no step decreases next_id.
C29_IdsUniqueNeverReused ==
    /\ [](/\ \A i, j \in 1..Len(todo_list.todos) :
               i # j => todo_list.todos[i].id # todo_list.todos[j].id
          /\ \A i \in 1..Len(todo_list.todos) :
               todo_list.todos[i].id < todo_list.next_id
          /\ TodoIds(todo_list) \cap todo_removed = {}
          /\ \A id \in todo_removed : id < todo_list.next_id)
    /\ [][todo_list'.next_id >= todo_list.next_id]_vars

\* C29 witness: a list made by new() has handed out the ids 1 and 2; the todo
\* of id 1 has been removed and the one of id 2, added since or before, is
\* in the list.
C29_Witness ==
    /\ todo_list.next_id = 3
    /\ todo_removed = {1}
    /\ TodoIds(todo_list) = {2}

\* C29 second case: the default list hands out the id 0.
C29_DefaultWitness ==
    /\ todo_list.next_id = 2
    /\ todo_removed = {0}
    /\ TodoIds(todo_list) = {1}
    /\ todo_list.todos[1].completed

\* The authenticated requests in flight that have incremented request_count.
Counted ==
    {r \in LkRequests :
        lk_req[r].pc \in {"lock_count_again", "lock_users_again", "len",
                          "return"}}

\* C30: request_count loses no update and the locking cannot deadlock: in
\* every interleaving of concurrent user_table requests each authenticated
\* request increments request_count exactly once, holding its mutex,
\* unauthenticated requests leave it alone, some request in flight can
\* always take a step and every request in flight completes, and once N
\* authenticated requests have completed request_count is its initial value
\* plus N.
C30_CounterAndLocks ==
    /\ [](/\ request_count
                = AppStateNew.request_count + lk_completed + Cardinality(Counted)
          /\ (\A r \in LkRequests : lk_req[r].pc = "idle")
                => request_count = AppStateNew.request_count + lk_completed
          /\ (\E r \in LkRequests : lk_req[r].pc # "idle")
                => \E r \in LkRequests : ENABLED LkStep(r))
    /\ [][request_count' # request_count =>
             \E r \in LkRequests :
                 /\ lk_req[r].authenticated
                 /\ lk_req[r].pc = "increment"
                 /\ lk_mutex["request_count"] = r
                 /\ lk_req'[r].pc # "increment"
                 /\ request_count' = request_count + 1]_vars
    /\ \A r \in LkRequests :
          (lk_req[r].pc # "idle") ~> (lk_req[r].pc = "idle")

\* C30 witness: one authenticated request has completed, a second holds the
\* request_count guard and is about to lock users, a third waits for the
\* request_count mutex to increment.
C30_Witness ==
    /\ lk_completed = 1
    /\ request_count = 2
    /\ lk_req[1].pc = "lock_users_again"
    /\ lk_mutex["request_count"] = 1
    /\ lk_req[2].pc = "lock_count"
    /\ lk_req[2].authenticated

\* C30 second case: an unauthenticated request has been through the handler
\* while an authenticated one holds both mutexes; the counter counts the
\* authenticated ones only.
C30_UnauthenticatedWitness ==
    /\ lk_completed = 2
    /\ request_count = 3
    /\ lk_req[1].pc = "len"
    /\ lk_mutex = [m \in {"users", "request_count"} |-> 1]
    /\ lk_req[2].pc = "auth"
    /\ ~lk_req[2].authenticated

=============================================================================
